---- MODULE Spec2Model ----
(***************************************************************************)
(* Model of the scheduled-task core of Mydevify:                           *)
(*   src/src-tauri/src/scheduler.rs    task store, cron helpers, CRUD      *)
(*   src/src-tauri/src/task_runner.rs  execute_task and the step executors *)
(*                                                                         *)
(* Abstractions.  Strings that only label things (name, description,       *)
(* schedule, output texts) are left out.  An id is an integer: 0 is the    *)
(* empty string, a positive number an id chosen by the caller, a negative  *)
(* number a UUID issued by uuid::Uuid::new_v4 (-k is the k-th one issued). *)
(* An instant is a natural number read from the clock `now`.  Option<T> is *)
(* a sequence of length 0 (None) or 1 (Some).  A step action is modelled   *)
(* by its tag.                                                             *)
(***************************************************************************)
EXTENDS Integers, Sequences, FiniteSets, TLC

VARIABLES
    tasks,      \* TaskStore.tasks   : Vec<ScheduledTask>       (in memory)
    history,    \* TaskStore.history : Vec<TaskHistory>         (in memory)
    disk,       \* the persisted document scheduled_tasks.json
    now,        \* the clock read by Utc::now()
    uuids,      \* how many UUIDs uuid::Uuid::new_v4 has issued so far
    nrec,       \* ghost: per task id, the runs handed to record_run since
                \*        the id's history was last purged
    ret,        \* ghost: the last store call, its argument and its result
    runs,       \* per run slot, the local state of one execute_task call
    queue,      \* RUN_NOW_QUEUE : Vec<String>
    pending,    \* the run_task_now calls that are between get_task and
                \* queue_run_now, by task id
    sched,      \* the locals of the scheduler loop, and as ghost state the
                \* dispatches it has made
    threads     \* per thread, the mutexes it holds and where it stands in
                \* the call it is making

vars ==
    <<tasks, history, disk, now, uuids, nrec, ret, runs, queue, pending, sched,
      threads>>

(***************************************************************************)
(* Bounds of the model                                                     *)
(***************************************************************************)
MaxSteps == 3
    \* longest step list of a task that is run
MaxAttempts == 3
    \* largest Retry{max_attempts} of a task that is run
MaxTasks == 2
    \* most tasks held by the store
MaxStoreRuns == 1
    \* most runs recorded per task id under SpecStore
MaxOverCap == 2
    \* under SpecHist up to HistoryCap + MaxOverCap runs are recorded per id
MaxUuids == 4
    \* most UUIDs issued under SpecCreate
MaxNewSteps == 2
    \* longest step list of a task handed to create_task under SpecCreate
MaxTime == 2
    \* the clock stops advancing at this instant
MaxRuns == 2
    \* most runs the scheduler loop spawns
MaxPasses == 2
    \* most passes the scheduler loop makes
MaxPending == 1
    \* most run_task_now calls between their lookup and their enqueue

(***************************************************************************)
(* Option<T>                                                               *)
(***************************************************************************)
None == <<>>

Some(x) == <<x>>

IsSome(o) == Len(o) = 1

(***************************************************************************)
(* Data model (scheduler.rs 18-145)                                        *)
(***************************************************************************)
EmptyId == 0

Executors == {"Local", "Web", "Ai"}

StepActions ==
    {"RunCommand", "BackupFiles", "GitCommit", "GitPush", "RunScript",
     "DeleteFiles", "HttpRequest", "DeployTrigger", "SendWebhook",
     "GenerateContent", "AnalyzeAndAct"}

StepStatuses == {"Pending", "Running", "Success", "Failed", "Skipped"}

RunStatuses == {"Running", "Success", "PartialSuccess", "Failed"}

Stop == [type |-> "Stop", max_attempts |-> 0]

SkipAndContinue == [type |-> "SkipAndContinue", max_attempts |-> 0]

Retry(m) == [type |-> "Retry", max_attempts |-> m]

TaskStep(id, executor, action, dep) ==
    [id |-> id, executor |-> executor, action |-> action,
     depends_on_previous |-> dep]

StepResult(step_id, status, error) ==
    [step_id |-> step_id, status |-> status, error |-> error]

TaskRun(started_at, finished_at, status, step_results, seq) ==
    [started_at |-> started_at, finished_at |-> finished_at,
     status |-> status, step_results |-> step_results, seq |-> seq]

TaskHistory(task_id, rs) == [task_id |-> task_id, runs |-> rs]

(***************************************************************************)
(* Sequence helpers                                                        *)
(***************************************************************************)
Range(s) == {s[x] : x \in DOMAIN s}

Last(s) == s[Len(s)]

\* the index of the first element of s satisfying P, 0 when there is none
FirstIndex(s, P(_)) ==
    IF \E x \in DOMAIN s : P(s[x])
    THEN CHOOSE x \in DOMAIN s : P(s[x]) /\ \A y \in 1..(x - 1) : ~P(s[y])
    ELSE 0

CountIf(s, P(_)) == Cardinality({x \in DOMAIN s : P(s[x])})

\* all sequences over S of length 0..n
SeqsUpTo(S, n) == UNION {[1..m -> S] : m \in 0..n}

(***************************************************************************)
(* Cron helpers (scheduler.rs 205-240).  A cron expression is modelled by  *)
(* the number of its whitespace-separated fields and by the schedule the   *)
(* cron crate reads from the normalised expression: `period` 0 is an       *)
(* expression Schedule::from_str rejects; a period p > 0 fires at the      *)
(* instants that are multiples of p, up to the instant `last` when the     *)
(* expression bounds its firings (a year field), for ever when `last` is   *)
(* None.  A timestamp string is modelled by whether it is RFC 3339 text    *)
(* and by the instant it then denotes.                                     *)
(***************************************************************************)
CronExpr(nfields, period, last) ==
    [nfields |-> nfields, period |-> period, last |-> last]

TimeString(valid, instant) == [valid |-> valid, instant |-> instant]

\* DateTime<Utc>::to_rfc3339
to_rfc3339(t) == TimeString(TRUE, t)

\* DateTime::parse_from_rfc3339(..).with_timezone(&Utc), Err as None
parse_from_rfc3339(s) == IF s.valid THEN Some(s.instant) ELSE None

\* Schedule::from_str(&full_expr).ok()
Schedule_from_str(cron_expr) ==
    IF cron_expr.period = 0 THEN None ELSE Some(cron_expr)

\* mutant of Upcoming: the first firing at or after t
Upcoming_atOrAfter(schedule, t) ==
    LET n == ((t + schedule.period - 1) \div schedule.period) * schedule.period
    IN  IF IsSome(schedule.last) /\ n > schedule.last[1] THEN None
        ELSE Some(n)

\* schedule.upcoming(Utc).next(): the first firing strictly after t, None
\* when the schedule has no firing left
Upcoming(schedule, t) ==
    LET n == ((t \div schedule.period) + 1) * schedule.period
    IN  IF IsSome(schedule.last) /\ n > schedule.last[1] THEN None
        ELSE Some(n)

\* mutant of next_run_time: an expression of any number of fields is handed
\* to the cron crate as it is
next_run_time_anyFieldCount(cron_expr, t) ==
    LET schedule == Schedule_from_str(cron_expr)
    IN  IF ~IsSome(schedule) THEN None
        ELSE LET next == Upcoming(schedule[1], t)
             IN  IF ~IsSome(next) THEN None
                 ELSE Some(to_rfc3339(next[1]))

next_run_time(cron_expr, t) ==
    IF cron_expr.nfields \notin {5, 6, 7} THEN None
    ELSE LET schedule == Schedule_from_str(cron_expr)
         IN  IF ~IsSome(schedule) THEN None
             ELSE LET next == Upcoming(schedule[1], t)
                  IN  IF ~IsSome(next) THEN None
                      ELSE Some(to_rfc3339(next[1]))

\* mutant of is_task_due: the enabled flag is tested only when next_run is
\* absent or unreadable
is_task_due_ignoresEnabled(task, t) ==
    IF IsSome(task.next_run)
    THEN LET next_run == parse_from_rfc3339(task.next_run[1])
         IN  IF IsSome(next_run) THEN next_run[1] <= t ELSE FALSE
    ELSE FALSE

is_task_due(task, t) ==
    IF ~task.enabled THEN FALSE
    ELSE IF IsSome(task.next_run)
         THEN LET next_run == parse_from_rfc3339(task.next_run[1])
              IN  IF IsSome(next_run) THEN next_run[1] <= t ELSE FALSE
    ELSE FALSE

(***************************************************************************)
(* The store (scheduler.rs 147-203).  A store value is the pair of vectors *)
(* the mutex guards; the operators below are the bodies of the CRUD        *)
(* functions between taking the lock and save_store.                       *)
(***************************************************************************)
Store(ts, hs) == [tasks |-> ts, history |-> hs]

TaskStore_new == Store(<<>>, <<>>)

\* save_store: the whole document is rewritten, or the write fails and the
\* file keeps its content
save_store(store, old_disk, ok) == IF ok THEN store ELSE old_disk

SaveResult(ok) == IF ok THEN "Ok" ELSE "IoError"

TaskIds(ts) == {ts[x].id : x \in DOMAIN ts}

HasTask(ts, id) == \E x \in DOMAIN ts : ts[x].id = id

\* iter().position(|t| t.id == id) / iter().find(..): the first match
Position(ts, id) == FirstIndex(ts, LAMBDA t : t.id = id)

\* uuid::Uuid::new_v4 after u UUIDs were issued
NewUuid(u) == -(u + 1)

EmptyIdsUpTo(steps, x) == Cardinality({y \in 1..x : steps[y].id = EmptyId})

\* mutant of GenStepIds: one UUID is drawn before the loop and reused
GenStepIds_oneUuid(steps, u) ==
    [x \in DOMAIN steps |->
        IF steps[x].id = EmptyId
        THEN [steps[x] EXCEPT !.id = NewUuid(u)]
        ELSE steps[x]]

\* create_task 259-264: every step with an empty id gets the next UUID
GenStepIds(steps, u) ==
    [x \in DOMAIN steps |->
        IF steps[x].id = EmptyId
        THEN [steps[x] EXCEPT !.id = NewUuid(u + EmptyIdsUpTo(steps, x) - 1)]
        ELSE steps[x]]

\* create_task 246-264: the task as it is pushed, u UUIDs issued before
NewTask(task, t, u) ==
    LET u1 == IF task.id = EmptyId THEN u + 1 ELSE u
    IN  [task EXCEPT
            !.id = IF task.id = EmptyId THEN NewUuid(u) ELSE task.id,
            !.created_at = t,
            !.updated_at = t,
            !.next_run = next_run_time(task.cron_expression, t),
            !.steps = GenStepIds(task.steps, u1)]

UuidsUsed(task) ==
    (IF task.id = EmptyId THEN 1 ELSE 0) + EmptyIdsUpTo(task.steps, Len(task.steps))

\* update_task 283-287
UpdatedTask(updated, t) ==
    [updated EXCEPT
        !.updated_at = t,
        !.next_run = next_run_time(updated.cron_expression, t)]

\* mutant of ToggledTask: next_run is recomputed whichever way the flag went
ToggledTask_alwaysRecomputes(task, t) ==
    [task EXCEPT
        !.enabled = ~task.enabled,
        !.updated_at = t,
        !.next_run = next_run_time(task.cron_expression, t)]

\* toggle_task 320-326
ToggledTask(task, t) ==
    LET en == ~task.enabled
    IN  [task EXCEPT
            !.enabled = en,
            !.updated_at = t,
            !.next_run = IF en THEN next_run_time(task.cron_expression, t)
                         ELSE task.next_run]

HistoryCap == 20

\* mutant of PushRun: the vector is truncated, which keeps the oldest runs
PushRun_keepsOldest(rs, run) ==
    LET pushed == Append(rs, run)
    IN  IF Len(pushed) > HistoryCap
        THEN SubSeq(pushed, 1, HistoryCap)
        ELSE pushed

\* record_run 378-382: push, then keep the last HistoryCap runs
PushRun(rs, run) ==
    LET pushed == Append(rs, run)
    IN  IF Len(pushed) > HistoryCap
        THEN SubSeq(pushed, Len(pushed) - HistoryCap + 1, Len(pushed))
        ELSE pushed

\* record_run 367-390 on the locked store
record_run(store, task_id, run, t) ==
    LET pos == Position(store.tasks, task_id)
        ts  == IF pos = 0 THEN store.tasks
               ELSE [store.tasks EXCEPT
                        ![pos].last_run = Some(run),
                        ![pos].next_run =
                            next_run_time(store.tasks[pos].cron_expression, t)]
        hpos == FirstIndex(store.history, LAMBDA h : h.task_id = task_id)
        hs  == IF hpos = 0
               THEN Append(store.history, TaskHistory(task_id, <<run>>))
               ELSE [store.history EXCEPT
                        ![hpos].runs = PushRun(store.history[hpos].runs, run)]
    IN  Store(ts, hs)

\* get_task_history 353-361
get_task_history(hs, task_id) ==
    LET hpos == FirstIndex(hs, LAMBDA h : h.task_id = task_id)
    IN  IF hpos = 0 THEN <<>> ELSE hs[hpos].runs

\* create_task 266-267 on the locked store: the prepared task is pushed
create_task(store, task, t, u) ==
    Store(Append(store.tasks, NewTask(task, t, u)), store.history)

\* update_task 277-287 on the locked store
update_task(store, updated, t) ==
    LET pos == Position(store.tasks, updated.id)
    IN  IF pos = 0 THEN [found |-> FALSE, store |-> store]
        ELSE [found |-> TRUE,
              store |-> Store([store.tasks EXCEPT ![pos] = UpdatedTask(updated, t)],
                              store.history)]

\* mutant of delete_task: the history is purged before the id is looked up
delete_task_purgesFirst(store, task_id) ==
    LET kept == SelectSeq(store.tasks, LAMBDA task : task.id # task_id)
        hs   == SelectSeq(store.history, LAMBDA h : h.task_id # task_id)
    IN  [found |-> Len(kept) # Len(store.tasks), store |-> Store(kept, hs)]

\* delete_task 297-305 on the locked store
delete_task(store, task_id) ==
    LET kept == SelectSeq(store.tasks, LAMBDA task : task.id # task_id)
    IN  IF Len(kept) = Len(store.tasks)
        THEN [found |-> FALSE, store |-> Store(kept, store.history)]
        ELSE [found |-> TRUE,
              store |-> Store(kept, SelectSeq(store.history,
                                              LAMBDA h : h.task_id # task_id))]

\* toggle_task 314-326 on the locked store
toggle_task(store, task_id, t) ==
    LET pos == Position(store.tasks, task_id)
    IN  IF pos = 0 THEN [found |-> FALSE, store |-> store]
        ELSE [found |-> TRUE,
              store |-> Store([store.tasks EXCEPT
                                  ![pos] = ToggledTask(store.tasks[pos], t)],
                              store.history)]

\* what a store call returned: Ok(value), Err("Task not found: ..") or the
\* error of save_store
Ret(op, result, value) == [op |-> op, result |-> result, value |-> value]

RunsRecorded(id) == IF id \in DOMAIN nrec THEN nrec[id] ELSE 0

(***************************************************************************)
(* The store calls as actions.  Each holds the mutex from its first line   *)
(* to its return, so each is one step; `ok` is whether the write of        *)
(* save_store succeeds.                                                    *)
(***************************************************************************)
\* scheduler.rs 245-271
CreateTask(task, ok) ==
    LET store == create_task(Store(tasks, history), task, now, uuids)
    IN  /\ tasks' = store.tasks
        /\ history' = store.history
        /\ disk' = save_store(store, disk, ok)
        /\ uuids' = uuids + UuidsUsed(task)
        /\ ret' = Ret("create", SaveResult(ok),
                      IF ok THEN Some(Last(store.tasks)) ELSE None)
        /\ UNCHANGED <<threads, queue, pending, sched, now, nrec, runs>>

\* scheduler.rs 274-291
UpdateTask(updated, ok) ==
    LET res == update_task(Store(tasks, history), updated, now)
    IN  /\ tasks' = res.store.tasks
        /\ history' = res.store.history
        /\ IF res.found
           THEN /\ disk' = save_store(res.store, disk, ok)
                /\ ret' = Ret("update", SaveResult(ok),
                              IF ok THEN Some(UpdatedTask(updated, now)) ELSE None)
           ELSE /\ disk' = disk
                /\ ret' = Ret("update", "NotFound", None)
        /\ UNCHANGED <<threads, queue, pending, sched, now, uuids, nrec, runs>>

\* scheduler.rs 294-308
DeleteTask(task_id, ok) ==
    LET res == delete_task(Store(tasks, history), task_id)
    IN  /\ tasks' = res.store.tasks
        /\ history' = res.store.history
        /\ IF res.found
           THEN /\ disk' = save_store(res.store, disk, ok)
                /\ ret' = Ret("delete", SaveResult(ok), None)
                /\ nrec' = [id \in DOMAIN nrec \ {task_id} |-> nrec[id]]
           ELSE /\ disk' = disk
                /\ ret' = Ret("delete", "NotFound", None)
                /\ nrec' = nrec
        /\ UNCHANGED <<threads, queue, pending, sched, now, uuids, runs>>

\* scheduler.rs 311-332
ToggleTask(task_id, ok) ==
    LET res == toggle_task(Store(tasks, history), task_id, now)
    IN  /\ tasks' = res.store.tasks
        /\ history' = res.store.history
        /\ IF res.found
           THEN /\ disk' = save_store(res.store, disk, ok)
                /\ ret' = Ret("toggle", SaveResult(ok),
                              IF ok THEN Some(res.store.tasks[Position(tasks, task_id)])
                              ELSE None)
           ELSE /\ disk' = disk
                /\ ret' = Ret("toggle", "NotFound", None)
        /\ UNCHANGED <<threads, queue, pending, sched, now, uuids, nrec, runs>>

\* scheduler.rs 364-393, called with a run that completed with `status`
RecordRun(task_id, status, ok) ==
    LET run   == TaskRun(now, Some(now), status, <<>>, RunsRecorded(task_id) + 1)
        store == record_run(Store(tasks, history), task_id, run, now)
    IN  /\ tasks' = store.tasks
        /\ history' = store.history
        /\ disk' = save_store(store, disk, ok)
        /\ nrec' = (task_id :> (RunsRecorded(task_id) + 1)) @@ nrec
        /\ ret' = Ret("record_run", SaveResult(ok), None)
        /\ UNCHANGED <<threads, queue, pending, sched, now, uuids, runs>>

(***************************************************************************)
(* Step executors (task_runner.rs 216-578): the set of statuses a call can *)
(* return.  A shell command ends Success (exit code 0) or Failed.          *)
(***************************************************************************)
run_shell_command == {"Success", "Failed"}

\* mutant of execute_local_step: whatever the action is, a command is run
execute_local_step_anyAction(action) == run_shell_command

execute_local_step(action) ==
    IF action \in {"RunCommand", "BackupFiles", "GitCommit", "GitPush",
                   "RunScript", "DeleteFiles"}
    THEN run_shell_command
    ELSE {"Failed"}

\* curl through the shell, then the HTTP status code decides
execute_http_request == {"Success", "Failed"}

\* mutant of execute_web_step: a deploy trigger is posted as a request
execute_web_step_postsDeploy(action) ==
    IF action \in {"HttpRequest", "SendWebhook", "DeployTrigger"}
    THEN execute_http_request
    ELSE {"Failed"}

execute_web_step(action) ==
    IF action \in {"HttpRequest", "SendWebhook"} THEN execute_http_request
    ELSE {"Failed"}

execute_ai_step(action) == {"Failed"}

execute_step(step) ==
    CASE step.executor = "Local" -> execute_local_step(step.action)
      [] step.executor = "Web"   -> execute_web_step(step.action)
      [] step.executor = "Ai"    -> execute_ai_step(step.action)

(***************************************************************************)
(* execute_task (task_runner.rs 47-189).  A run slot holds the locals of   *)
(* one call: the task snapshot it was given, the loop index i (1-based),   *)
(* the attempt counter of the retry loop, step_results, the two flags, the *)
(* notifications emitted so far (events), and as ghost state the executor  *)
(* invocations made (calls).                                               *)
(***************************************************************************)
Slots == {1}

IdleRun ==
    [pc |-> "idle", task |-> None, started_at |-> 0, i |-> 0, attempt |-> 0,
     step_results |-> <<>>, had_failure |-> FALSE,
     all_skipped_or_success |-> TRUE, run |-> None, events |-> <<>>,
     calls |-> <<>>]

\* the slot right after dispatch: execute_task is about to be entered
Dispatched(task) == [IdleRun EXCEPT !.pc = "start", !.task = Some(task)]

Started == [type |-> "Started", step_id |-> EmptyId, status |-> "Running"]

\* emit_step_completed 192-214
StepCompleted(result) ==
    [type |-> "StepCompleted", step_id |-> result.step_id,
     status |-> result.status]

Finished(status) ==
    [type |-> "Finished", step_id |-> EmptyId, status |-> status]

\* mutant of ShouldSkip: the had_failure flag is not consulted
ShouldSkip_dependsOnly(had_failure, step) == step.depends_on_previous

\* 66: skip because of an earlier failure
ShouldSkip(had_failure, step) == had_failure /\ step.depends_on_previous

\* mutant of max_attempts: Retry{m} allows m attempts after the first one
max_attempts_retriesAfterFirst(on_failure) ==
    IF on_failure.type = "Retry" THEN on_failure.max_attempts + 1 ELSE 1

\* 83-86
max_attempts(on_failure) ==
    IF on_failure.type = "Retry" THEN on_failure.max_attempts ELSE 1

\* 67-74
SkippedPrevious(step) == StepResult(step.id, "Skipped", "previous step failed")

\* mutant of SkippedRemaining: the slice starts one step too late
SkippedRemaining_fromSecondNext(steps, i) ==
    [x \in 1..(Len(steps) - i - 1) |->
        StepResult(steps[i + 1 + x].id, "Skipped", "task stopped")]

\* 135-146: one synthesized result per step after position i
SkippedRemaining(steps, i) ==
    [x \in 1..(Len(steps) - i) |->
        StepResult(steps[i + x].id, "Skipped", "task stopped")]

\* mutant of OverallStatus: only the first result is looked at
OverallStatus_firstOnly(had_failure, all_skipped_or_success, step_results) ==
    IF ~had_failure THEN "Success"
    ELSE IF all_skipped_or_success THEN "Success"
    ELSE IF step_results # <<>> /\ step_results[1].status = "Success"
         THEN "PartialSuccess"
    ELSE "Failed"

\* mutant of OverallStatus: a run with a failure is never worse than partial
OverallStatus_neverFailed(had_failure, all_skipped_or_success, step_results) ==
    IF ~had_failure THEN "Success"
    ELSE IF all_skipped_or_success THEN "Success"
    ELSE "PartialSuccess"

\* 157-166
OverallStatus(had_failure, all_skipped_or_success, step_results) ==
    IF ~had_failure THEN "Success"
    ELSE IF all_skipped_or_success THEN "Success"
    ELSE IF \E x \in DOMAIN step_results : step_results[x].status = "Success"
         THEN "PartialSuccess"
    ELSE "Failed"

\* mutant of EmitAll: the notifications are emitted last result first
EmitAll_lastFirst(events, results) ==
    events \o [x \in DOMAIN results |->
                  StepCompleted(results[Len(results) + 1 - x])]

EmitAll(events, results) ==
    events \o [x \in DOMAIN results |-> StepCompleted(results[x])]

\* mutant of StepFailed: all_skipped_or_success is left as it is
StepFailed_keepsFlag(r) ==
    LET steps == r.task[1].steps
        r1 == [r EXCEPT !.had_failure = TRUE, !.attempt = 0]
    IN  IF r.task[1].on_failure.type = "Stop"
        THEN LET sk == SkippedRemaining(steps, r.i)
             IN  [r1 EXCEPT !.step_results = r.step_results \o sk,
                            !.events = EmitAll(r.events, sk),
                            !.i = Len(steps) + 1]
        ELSE [r1 EXCEPT !.i = r.i + 1]

\* mutant of StepFailed: Stop goes on to the next step as the other
\* policies do
StepFailed_neverStops(r) ==
    [r EXCEPT !.had_failure = TRUE,
              !.all_skipped_or_success = FALSE,
              !.attempt = 0,
              !.i = r.i + 1]

\* 128-154: the step did not succeed
StepFailed(r) ==
    LET steps == r.task[1].steps
        r1 == [r EXCEPT !.had_failure = TRUE,
                        !.all_skipped_or_success = FALSE,
                        !.attempt = 0]
    IN  IF r.task[1].on_failure.type = "Stop"
        THEN LET sk == SkippedRemaining(steps, r.i)
             IN  [r1 EXCEPT !.step_results = r.step_results \o sk,
                            !.events = EmitAll(r.events, sk),
                            !.i = Len(steps) + 1]
        ELSE [r1 EXCEPT !.i = r.i + 1]

\* mutant of AfterAttempt: a failed attempt is recorded and emitted also
\* when attempts remain
AfterAttempt_recordsEveryAttempt(r, status) ==
    LET step   == r.task[1].steps[r.i]
        max    == max_attempts(r.task[1].on_failure)
        result == StepResult(step.id, status, "")
        called == [r EXCEPT !.calls = Append(r.calls, [idx |-> r.i, status |-> status])]
        pushed == [called EXCEPT
                      !.step_results = Append(r.step_results, result),
                      !.events = Append(r.events, StepCompleted(result))]
    IN  CASE status = "Success" ->
                [pushed EXCEPT !.i = r.i + 1, !.attempt = 0]
          [] status = "Failed" ->
                IF r.attempt = max - 1 THEN StepFailed(pushed)
                ELSE [pushed EXCEPT !.attempt = r.attempt + 1]
          [] OTHER -> StepFailed(pushed)

\* mutant of AfterAttempt: a failed attempt with attempts left spends the
\* next attempt on the following step
AfterAttempt_retriesNextStep(r, status) ==
    LET step   == r.task[1].steps[r.i]
        max    == max_attempts(r.task[1].on_failure)
        result == StepResult(step.id, status, "")
        called == [r EXCEPT !.calls = Append(r.calls, [idx |-> r.i, status |-> status])]
        pushed == [called EXCEPT
                      !.step_results = Append(r.step_results, result),
                      !.events = Append(r.events, StepCompleted(result))]
    IN  CASE status = "Success" ->
                [pushed EXCEPT !.i = r.i + 1, !.attempt = 0]
          [] status = "Failed" ->
                IF r.attempt = max - 1 THEN StepFailed(pushed)
                ELSE [called EXCEPT !.attempt = r.attempt + 1, !.i = r.i + 1]
          [] OTHER -> StepFailed(pushed)

\* 96-126: one pass of the retry loop whose executor call returned status,
\* followed by 128-154 when the loop ends without success
AfterAttempt(r, status) ==
    LET step   == r.task[1].steps[r.i]
        max    == max_attempts(r.task[1].on_failure)
        result == StepResult(step.id, status, "")
        called == [r EXCEPT !.calls = Append(r.calls, [idx |-> r.i, status |-> status])]
        pushed == [called EXCEPT
                      !.step_results = Append(r.step_results, result),
                      !.events = Append(r.events, StepCompleted(result))]
    IN  CASE status = "Success" ->
                [pushed EXCEPT !.i = r.i + 1, !.attempt = 0]
          [] status = "Failed" ->
                IF r.attempt = max - 1 THEN StepFailed(pushed)
                ELSE [called EXCEPT !.attempt = r.attempt + 1]
          [] OTHER -> StepFailed(pushed)

InLoop(r) == r.pc = "loop" /\ r.i <= Len(r.task[1].steps)

\* 47-62
StartRun(k) ==
    /\ runs[k].pc = "start"
    /\ runs' = [runs EXCEPT ![k].pc = "loop",
                            ![k].started_at = now,
                            ![k].i = 1,
                            ![k].events = <<Started>>]
    /\ UNCHANGED <<threads, queue, pending, sched, tasks, history, disk, now, uuids, nrec, ret>>

\* 66-80
SkipStep(k) ==
    LET r == runs[k] IN
    /\ InLoop(r)
    /\ ShouldSkip(r.had_failure, r.task[1].steps[r.i])
    /\ LET result == SkippedPrevious(r.task[1].steps[r.i])
       IN  runs' = [runs EXCEPT
                       ![k].step_results = Append(r.step_results, result),
                       ![k].events = Append(r.events, StepCompleted(result)),
                       ![k].all_skipped_or_success = FALSE,
                       ![k].i = r.i + 1]
    /\ UNCHANGED <<threads, queue, pending, sched, tasks, history, disk, now, uuids, nrec, ret>>

\* 90-154, one executor call
AttemptStep(k) ==
    LET r == runs[k] IN
    /\ InLoop(r)
    /\ ~ShouldSkip(r.had_failure, r.task[1].steps[r.i])
    /\ r.attempt < max_attempts(r.task[1].on_failure)
    /\ \E status \in execute_step(r.task[1].steps[r.i]) :
          runs' = [runs EXCEPT ![k] = AfterAttempt(r, status)]
    /\ UNCHANGED <<threads, queue, pending, sched, tasks, history, disk, now, uuids, nrec, ret>>

\* mutant of NoAttempt: with no attempt allowed the step is neither run nor
\* failed, and the retry loop is entered again
NoAttempt_retriesForever(k) ==
    LET r == runs[k] IN
    /\ InLoop(r)
    /\ ~ShouldSkip(r.had_failure, r.task[1].steps[r.i])
    /\ max_attempts(r.task[1].on_failure) = 0
    /\ runs' = [runs EXCEPT ![k].attempt = 0]
    /\ UNCHANGED <<threads, queue, pending, sched, tasks, history, disk, now, uuids, nrec, ret>>

\* 90-154 when 0..max_attempts is empty: no executor call at all
NoAttempt(k) ==
    LET r == runs[k] IN
    /\ InLoop(r)
    /\ ~ShouldSkip(r.had_failure, r.task[1].steps[r.i])
    /\ max_attempts(r.task[1].on_failure) = 0
    /\ runs' = [runs EXCEPT ![k] = StepFailed(r)]
    /\ UNCHANGED <<threads, queue, pending, sched, tasks, history, disk, now, uuids, nrec, ret>>

\* 157-176: the overall status, the TaskRun, and record_run (whose result
\* is dropped)
FinishRecord(k, ok) ==
    LET r == runs[k] IN
    /\ r.pc = "loop"
    /\ r.i > Len(r.task[1].steps)
    /\ LET id    == r.task[1].id
           run   == TaskRun(r.started_at, Some(now),
                            OverallStatus(r.had_failure, r.all_skipped_or_success,
                                          r.step_results),
                            r.step_results, RunsRecorded(id) + 1)
           store == record_run(Store(tasks, history), id, run, now)
       IN  /\ runs' = [runs EXCEPT ![k].pc = "recorded", ![k].run = Some(run)]
           /\ tasks' = store.tasks
           /\ history' = store.history
           /\ disk' = save_store(store, disk, ok)
           /\ nrec' = (id :> (RunsRecorded(id) + 1)) @@ nrec
           /\ ret' = Ret("record_run", SaveResult(ok), None)
    /\ UNCHANGED <<threads, queue, pending, sched, now, uuids>>

\* mutant of EmitFinished: the notification goes out at the end of the step
\* loop, and record_run is not reached before it
EmitFinished_withoutRecord(k) ==
    LET r == runs[k] IN
    /\ r.pc = "loop"
    /\ r.i > Len(r.task[1].steps)
    /\ LET status == OverallStatus(r.had_failure, r.all_skipped_or_success,
                                   r.step_results)
       IN  runs' = [runs EXCEPT
                       ![k].pc = "done",
                       ![k].run = Some(TaskRun(r.started_at, Some(now), status,
                                               r.step_results, 0)),
                       ![k].events = Append(r.events, Finished(status))]
    /\ UNCHANGED <<threads, queue, pending, sched, tasks, history, disk, now, uuids, nrec, ret>>

\* 178-188
EmitFinished(k) ==
    LET r == runs[k] IN
    /\ r.pc = "recorded"
    /\ runs' = [runs EXCEPT ![k].pc = "done",
                            ![k].events = Append(r.events, Finished(r.run[1].status))]
    /\ UNCHANGED <<threads, queue, pending, sched, tasks, history, disk, now, uuids, nrec, ret>>

(***************************************************************************)
(* The run-now queue and the scheduler loop (scheduler.rs 395-466, lib.rs  *)
(* 546-552).  One pass of the loop is several steps, because it takes and  *)
(* releases the queue lock once and the store lock once per looked-up id   *)
(* and once for the scan; other threads run in between.  Ghost state:      *)
(* sched.log has one entry per spawned execute_task, sched.pass counts the *)
(* passes, and sched.scan_at is the clock at the latest scan.              *)
(***************************************************************************)
IdleSched ==
    [pc |-> "sleep", run_now_ids |-> <<>>, due_tasks |-> <<>>, j |-> 0,
     pass |-> 0, scan_at |-> 0, log |-> <<>>]

\* one spawned run: the pass that spawned it, by which loop, the snapshot
\* it was given, the run slot it took and the clock at that moment
Dispatch(pass, path, task, slot, t) ==
    [pass |-> pass, path |-> path, task |-> task, slot |-> slot, at |-> t]

\* get_task 341-349: a clone of the first task with the id, Err as None
get_task(ts, task_id) ==
    IF HasTask(ts, task_id) THEN Some(ts[Position(ts, task_id)]) ELSE None

\* mutant of queue_run_now: the id is pushed without looking for it
queue_run_now_alwaysPushes(q, task_id) == Append(q, task_id)

\* queue_run_now 396-402
queue_run_now(q, task_id) ==
    IF task_id \in Range(q) THEN q ELSE Append(q, task_id)

\* mutant of DueTasks: a task with a run in flight is passed over
DueTasks_notInFlight(ts, t) ==
    SelectSeq(ts, LAMBDA task :
        /\ is_task_due(task, t)
        /\ \A k \in DOMAIN runs :
              runs[k].pc \in {"start", "loop"} => runs[k].task[1].id # task.id)

\* 444-449: the stored tasks that are due, in store order
DueTasks(ts, t) == SelectSeq(ts, LAMBDA task : is_task_due(task, t))

\* 454: the due task was already triggered by "run now"
AlreadyTriggered(run_now_ids, task) == task.id \in Range(run_now_ids)

HasFreeSlot == \E k \in DOMAIN runs : runs[k].pc = "idle"

FreeSlot == CHOOSE k \in DOMAIN runs :
                runs[k].pc = "idle" /\ \A m \in 1..(k - 1) : runs[m].pc # "idle"

\* mutant of Spawn: a disabled task is passed over
Spawn_onlyEnabled(path, task) ==
    IF task.enabled
    THEN /\ HasFreeSlot
         /\ runs' = [runs EXCEPT ![FreeSlot] = Dispatched(task)]
         /\ sched' = [sched EXCEPT
                         !.j = sched.j + 1,
                         !.log = Append(sched.log,
                                        Dispatch(sched.pass, path, task, FreeSlot, now))]
    ELSE /\ runs' = runs
         /\ sched' = [sched EXCEPT !.j = sched.j + 1]

\* tauri::async_runtime::spawn(execute_task(handle, task)) by the loop `path`
Spawn(path, task) ==
    /\ HasFreeSlot
    /\ runs' = [runs EXCEPT ![FreeSlot] = Dispatched(task)]
    /\ sched' = [sched EXCEPT
                    !.j = sched.j + 1,
                    !.log = Append(sched.log,
                                   Dispatch(sched.pass, path, task, FreeSlot, now))]

\* the clock advances
Tick ==
    /\ now' = now + 1
    /\ UNCHANGED <<threads, tasks, history, disk, uuids, nrec, ret, runs, queue, pending, sched>>

\* mutant of RunTaskNowCheck: the id goes on to queue_run_now whether or
\* not the task exists
RunTaskNowCheck_skipsLookup(task_id) ==
    /\ pending' = Append(pending, task_id)
    /\ ret' = Ret("run_task_now", "Checked", None)
    /\ UNCHANGED <<threads, tasks, history, disk, now, uuids, nrec, runs, queue, sched>>

\* lib.rs 549: run_task_now validates that the task exists
RunTaskNowCheck(task_id) ==
    /\ IF IsSome(get_task(tasks, task_id))
       THEN /\ pending' = Append(pending, task_id)
            /\ ret' = Ret("run_task_now", "Checked", None)
       ELSE /\ pending' = pending
            /\ ret' = Ret("run_task_now", "NotFound", None)
    /\ UNCHANGED <<threads, tasks, history, disk, now, uuids, nrec, runs, queue, sched>>

\* lib.rs 551-552: queue_run_now, then Ok(()); ret.value is ghost: whether
\* the id was in the queue when queue_run_now looked
RunTaskNowQueue(x) ==
    /\ x \in DOMAIN pending
    /\ queue' = queue_run_now(queue, pending[x])
    /\ pending' = [y \in 1..(Len(pending) - 1) |->
                      IF y < x THEN pending[y] ELSE pending[y + 1]]
    /\ ret' = Ret("run_task_now", "Ok", Some(pending[x] \in Range(queue)))
    /\ UNCHANGED <<threads, tasks, history, disk, now, uuids, nrec, runs, sched>>

\* mutant of Drain: the queue is cloned and not cleared
Drain_keepsQueue ==
    /\ sched.pc = "sleep"
    /\ sched' = [sched EXCEPT !.pc = "run_now", !.run_now_ids = queue,
                              !.due_tasks = <<>>, !.j = 1,
                              !.pass = sched.pass + 1]
    /\ queue' = queue
    /\ UNCHANGED <<threads, tasks, history, disk, now, uuids, nrec, ret, runs, pending>>

\* 415-426: the ticker fires; the queue is cloned and cleared under its lock
Drain ==
    /\ sched.pc = "sleep"
    /\ sched' = [sched EXCEPT !.pc = "run_now", !.run_now_ids = queue,
                              !.due_tasks = <<>>, !.j = 1,
                              !.pass = sched.pass + 1]
    /\ queue' = <<>>
    /\ UNCHANGED <<threads, tasks, history, disk, now, uuids, nrec, ret, runs, pending>>

\* mutant of DispatchRunNow: an id whose task is not found ends the pass
DispatchRunNow_stopsAtMissing ==
    /\ sched.pc = "run_now"
    /\ sched.j <= Len(sched.run_now_ids)
    /\ LET task == get_task(tasks, sched.run_now_ids[sched.j])
       IN  IF IsSome(task)
           THEN Spawn("run_now", task[1])
           ELSE /\ sched' = [sched EXCEPT !.pc = "sleep"]
                /\ runs' = runs
    /\ UNCHANGED <<threads, tasks, history, disk, now, uuids, nrec, ret, queue, pending>>

\* 428-436, one iteration: the task is looked up and, when found, spawned
DispatchRunNow ==
    /\ sched.pc = "run_now"
    /\ sched.j <= Len(sched.run_now_ids)
    /\ LET task == get_task(tasks, sched.run_now_ids[sched.j])
       IN  IF IsSome(task)
           THEN Spawn("run_now", task[1])
           ELSE /\ sched' = [sched EXCEPT !.j = sched.j + 1]
                /\ runs' = runs
    /\ UNCHANGED <<threads, tasks, history, disk, now, uuids, nrec, ret, queue, pending>>

\* 439-450: the due tasks are collected under the store lock; with none
\* due the loop is back at ticker.tick()
ScanDue ==
    /\ sched.pc = "run_now"
    /\ sched.j > Len(sched.run_now_ids)
    /\ LET due == DueTasks(tasks, now)
       IN  sched' = [sched EXCEPT
                        !.pc = IF due = <<>> THEN "sleep" ELSE "due",
                        !.due_tasks = due,
                        !.j = 1,
                        !.scan_at = now]
    /\ UNCHANGED <<threads, tasks, history, disk, now, uuids, nrec, ret, runs, queue, pending>>

\* after the last due task the loop is back at ticker.tick()
BackToSleep(s) ==
    IF s.j > Len(s.due_tasks) THEN [s EXCEPT !.pc = "sleep"] ELSE s

\* 452-463, one iteration: spawned unless triggered by "run now"
DispatchDue ==
    /\ sched.pc = "due"
    /\ sched.j <= Len(sched.due_tasks)
    /\ LET task == sched.due_tasks[sched.j]
       IN  IF AlreadyTriggered(sched.run_now_ids, task)
           THEN /\ sched' = BackToSleep([sched EXCEPT !.j = sched.j + 1])
                /\ runs' = runs
           ELSE /\ HasFreeSlot
                /\ runs' = [runs EXCEPT ![FreeSlot] = Dispatched(task)]
                /\ sched' = BackToSleep(
                      [sched EXCEPT
                          !.j = sched.j + 1,
                          !.log = Append(sched.log,
                                         Dispatch(sched.pass, "due", task,
                                                  FreeSlot, now))])
    /\ UNCHANGED <<threads, tasks, history, disk, now, uuids, nrec, ret, queue, pending>>

(***************************************************************************)
(* The two mutexes (scheduler.rs 198-203).  TASK_STORE and RUN_NOW_QUEUE   *)
(* are std::sync::Mutex: lock() blocks until the mutex is free and the     *)
(* guard releases it at the end of its scope.  A thread is the scheduler   *)
(* loop, a caller of the CRUD commands, a caller of run_task_now, or a     *)
(* spawned execute_task at its record_run.  The actions below follow a     *)
(* call statement by statement: the wait in lock(), the body under the     *)
(* guard, the return that drops the guard.  What the calls return and the  *)
(* runs the scheduler loop spawns are not kept here.                       *)
(***************************************************************************)
Threads == {"scheduler", "crud", "run_task_now", "execute_task"}

IdleThread == [pc |-> "idle", holds |-> {}, call |-> None]

IdleThreads == [t \in Threads |-> IdleThread]

Holders(lock) == {t \in Threads : lock \in threads[t].holds}

IsFree(lock) == Holders(lock) = {}

\* the mutex the thread is blocked on in Mutex::lock, if any
WaitsFor(th) ==
    CASE th.pc \in {"store_lock", "get_lock", "scan_lock"} -> {"store"}
      [] th.pc \in {"drain_lock", "push_lock"} -> {"queue"}
      [] OTHER -> {}

\* Mutex::lock returns the guard
Acquired(th, lock, pc) == [th EXCEPT !.holds = @ \cup {lock}, !.pc = pc]

\* the guard goes out of scope
Released(th, lock, pc) == [th EXCEPT !.holds = @ \ {lock}, !.pc = pc]

Returned(th, lock) == [Released(th, lock, "idle") EXCEPT !.call = None]

Mutex_lock(t, lock, pc) ==
    /\ IsFree(lock)
    /\ threads' = [threads EXCEPT ![t] = Acquired(@, lock, pc)]

\* a call of create_task, update_task, delete_task, toggle_task or
\* record_run; `at` is the clock when the call was entered; `synced` is
\* ghost: the file was in step with the memory when the call took the lock
StoreCall(op, task, at, synced) ==
    [op |-> op, task |-> task, at |-> at, synced |-> synced]

\* the call is made; create_task prepares the task (246-264, with the clock
\* of that moment) and then, as the others do at once, calls
\* TASK_STORE.lock()
EnterStore(t, op, task) ==
    /\ threads[t].pc = "idle"
    /\ threads' = [threads EXCEPT ![t].pc = "store_lock",
                                  ![t].call = Some(StoreCall(op, task, now, FALSE))]
    /\ UNCHANGED <<tasks, history, disk, now, uuids, nrec, ret, runs, queue, pending, sched>>

\* 266, 275, 295, 312, 365
LockStore(t) ==
    /\ threads[t].pc = "store_lock"
    /\ Mutex_lock(t, "store", "store_body")
    /\ UNCHANGED <<tasks, history, disk, now, uuids, nrec, ret, runs, queue, pending, sched>>

\* what the body of the call makes of the locked store, before save_store
Mutated(store, call, t, u, seq) ==
    CASE call.op = "create" ->
            [found |-> TRUE, store |-> create_task(store, call.task, call.at, u)]
      [] call.op = "update" -> update_task(store, call.task, t)
      [] call.op = "delete" -> delete_task(store, call.task.id)
      [] call.op = "toggle" -> toggle_task(store, call.task.id, t)
      [] call.op = "record_run" ->
            [found |-> TRUE,
             store |-> record_run(store, call.task.id,
                                  TaskRun(t, Some(t), "Success", <<>>, seq), t)]

\* 267, 277-287, 297-305, 314-328, 368-390: the memory is changed under the
\* guard; a failed lookup returns the error, which drops the guard
StoreBody(t) ==
    LET call == threads[t].call[1]
        id   == call.task.id
        res  == Mutated(Store(tasks, history), call, now, uuids, RunsRecorded(id) + 1)
    IN  /\ threads[t].pc = "store_body"
        /\ tasks' = res.store.tasks
        /\ history' = res.store.history
        /\ uuids' = IF call.op = "create" THEN uuids + UuidsUsed(call.task) ELSE uuids
        /\ nrec' = CASE call.op = "record_run" -> (id :> (RunsRecorded(id) + 1)) @@ nrec
                     [] call.op = "delete" /\ res.found ->
                           [x \in DOMAIN nrec \ {id} |-> nrec[x]]
                     [] OTHER -> nrec
        /\ threads' = IF res.found
                       THEN [threads EXCEPT
                                ![t].pc = "store_save",
                                ![t].call = Some([call EXCEPT !.synced =
                                                    (disk = Store(tasks, history))])]
                       ELSE [threads EXCEPT ![t] = Returned(@, "store")]
        /\ UNCHANGED <<disk, now, ret, runs, queue, pending, sched>>

\* 268-270, 288-290, 307, 329-331, 392: save_store under the guard, then
\* the return; the write may fail when the file was in step with the memory
StoreSave(t, ok) ==
    /\ threads[t].pc = "store_save"
    /\ ok \in (IF threads[t].call[1].synced THEN BOOLEAN ELSE {TRUE})
    /\ disk' = save_store(Store(tasks, history), disk, ok)
    /\ threads' = [threads EXCEPT ![t] = Returned(@, "store")]
    /\ UNCHANGED <<tasks, history, now, uuids, nrec, ret, runs, queue, pending, sched>>

\* lib.rs 547-549: run_task_now calls get_task, whose first statement is
\* TASK_STORE.lock()
EnterRunNow(t, task_id) ==
    /\ threads[t].pc = "idle"
    /\ threads' = [threads EXCEPT ![t].pc = "get_lock", ![t].call = Some(task_id)]
    /\ UNCHANGED <<tasks, history, disk, now, uuids, nrec, ret, runs, queue, pending, sched>>

\* 342, 440
LockGet(t) ==
    /\ threads[t].pc = "get_lock"
    /\ Mutex_lock(t, "store", "get")
    /\ UNCHANGED <<tasks, history, disk, now, uuids, nrec, ret, runs, queue, pending, sched>>

\* mutant of RunNowGet: the guard of get_task is still alive when
\* queue_run_now is called
RunNowGet_keepsGuard(t) ==
    /\ threads[t].pc = "get"
    /\ threads' = IF IsSome(get_task(tasks, threads[t].call[1]))
                   THEN [threads EXCEPT ![t].pc = "push_lock"]
                   ELSE [threads EXCEPT ![t] = Returned(@, "store")]
    /\ UNCHANGED <<tasks, history, disk, now, uuids, nrec, ret, runs, queue, pending, sched>>

\* 343-348 and lib.rs 549-551: get_task returns, dropping its guard; the
\* error leaves run_task_now, otherwise queue_run_now is called, whose
\* first statement is RUN_NOW_QUEUE.lock()
RunNowGet(t) ==
    /\ threads[t].pc = "get"
    /\ threads' = IF IsSome(get_task(tasks, threads[t].call[1]))
                   THEN [threads EXCEPT ![t] = Released(@, "store", "push_lock")]
                   ELSE [threads EXCEPT ![t] = Returned(@, "store")]
    /\ UNCHANGED <<tasks, history, disk, now, uuids, nrec, ret, runs, queue, pending, sched>>

\* 397
LockPush(t) ==
    /\ threads[t].pc = "push_lock"
    /\ Mutex_lock(t, "queue", "push")
    /\ UNCHANGED <<tasks, history, disk, now, uuids, nrec, ret, runs, queue, pending, sched>>

\* 398-402 and lib.rs 552
RunNowPush(t) ==
    /\ threads[t].pc = "push"
    /\ queue' = queue_run_now(queue, threads[t].call[1])
    /\ threads' = [threads EXCEPT ![t] = Returned(@, "queue")]
    /\ UNCHANGED <<tasks, history, disk, now, uuids, nrec, ret, runs, pending, sched>>

\* where the scheduler loop stands after the run-now id at position j - 1
AfterRunNowId(s) ==
    IF s.j <= Len(s.run_now_ids) THEN "get_lock" ELSE "scan_lock"

\* 415-419: the ticker fires; the first statement is RUN_NOW_QUEUE.lock()
SchedTick(t) ==
    /\ threads[t].pc = "idle"
    /\ threads' = [threads EXCEPT ![t].pc = "drain_lock"]
    /\ sched' = [sched EXCEPT !.pass = sched.pass + 1]
    /\ UNCHANGED <<tasks, history, disk, now, uuids, nrec, ret, runs, queue, pending>>

\* 419
LockDrain(t) ==
    /\ threads[t].pc = "drain_lock"
    /\ Mutex_lock(t, "queue", "drain")
    /\ UNCHANGED <<tasks, history, disk, now, uuids, nrec, ret, runs, queue, pending, sched>>

\* 423-426: clone, clear, and the guard ends with the block
SchedDrain(t) ==
    LET s == [sched EXCEPT !.run_now_ids = queue, !.due_tasks = <<>>, !.j = 1] IN
    /\ threads[t].pc = "drain"
    /\ sched' = s
    /\ queue' = <<>>
    /\ threads' = [threads EXCEPT ![t] = Released(@, "queue", AfterRunNowId(s))]
    /\ UNCHANGED <<tasks, history, disk, now, uuids, nrec, ret, runs, pending>>

\* 429-435: get_task returns, dropping its guard; a task found is spawned
SchedGet(t) ==
    LET s == [sched EXCEPT !.j = sched.j + 1]
    IN  /\ threads[t].pc = "get"
        /\ sched' = s
        /\ threads' = [threads EXCEPT ![t] = Released(@, "store", AfterRunNowId(s))]
        /\ UNCHANGED <<tasks, history, disk, now, uuids, nrec, ret, runs, queue, pending>>

\* 440
LockScan(t) ==
    /\ threads[t].pc = "scan_lock"
    /\ Mutex_lock(t, "store", "scan")
    /\ UNCHANGED <<tasks, history, disk, now, uuids, nrec, ret, runs, queue, pending, sched>>

\* 444-463: the due tasks are collected, the guard ends with the block, and
\* the due loop, which takes no mutex, spawns them
SchedScan(t) ==
    LET due == DueTasks(tasks, now) IN
    /\ threads[t].pc = "scan"
    /\ sched' = [sched EXCEPT !.due_tasks = due,
                              !.j = Len(due) + 1,
                              !.scan_at = now]
    /\ threads' = [threads EXCEPT ![t] = Released(@, "store", "idle")]
    /\ UNCHANGED <<tasks, history, disk, now, uuids, nrec, ret, runs, queue, pending>>

(***************************************************************************)
(* SpecRun: one dispatched run of one task, from dispatch to the finished  *)
(* notification.  The task is drawn from the bounded set RunTasks and is   *)
(* in the store, as saved by create_task at instant 0.                     *)
(***************************************************************************)
RunStepKinds == {<<"Local", "RunCommand">>, <<"Ai", "AnalyzeAndAct">>}

RunPolicies == {Stop, SkipAndContinue} \cup {Retry(m) : m \in 0..MaxAttempts}

\* step lists of length 0..MaxSteps; the step at position x has id x
RunStepLists ==
    {[x \in DOMAIN ks |-> TaskStep(x, ks[x][1][1], ks[x][1][2], ks[x][2])] :
        ks \in SeqsUpTo(RunStepKinds \X BOOLEAN, MaxSteps)}

Task(id, cron, enabled, steps, on_failure) ==
    [id |-> id, cron_expression |-> cron, enabled |-> enabled,
     steps |-> steps, on_failure |-> on_failure, last_run |-> None,
     next_run |-> None, created_at |-> 0, updated_at |-> 0]

RunTasks ==
    {NewTask(Task(1, CronExpr(5, 1, None), TRUE, steps, pol), 0, 0) :
        steps \in RunStepLists, pol \in RunPolicies}

InitRun ==
    /\ \E task \in RunTasks :
          /\ tasks = <<task>>
          /\ runs = [k \in Slots |-> Dispatched(task)]
    /\ history = <<>>
    /\ disk = Store(tasks, history)
    /\ now = 0
    /\ uuids = 0
    /\ nrec = <<>>
    /\ ret = Ret("create", "Ok", Some(tasks[1]))
    /\ queue = <<>>
    /\ pending = <<>>
    /\ sched = IdleSched
    /\ threads = IdleThreads

NextRun ==
    \E k \in Slots :
       \/ StartRun(k)
       \/ SkipStep(k)
       \/ AttemptStep(k)
       \/ NoAttempt(k)
       \/ \E ok \in BOOLEAN : FinishRecord(k, ok)
       \/ EmitFinished(k)

SpecRun == InitRun /\ [][NextRun]_vars

(***************************************************************************)
(* Vocabulary of the claims about a run                                    *)
(***************************************************************************)
Completed(r) == r.pc \in {"recorded", "done"}

StepsOf(r) == r.task[1].steps

\* the step at position x has been resolved: the loop has moved past it
Resolved(r, x) == x \in DOMAIN StepsOf(r) /\ r.pc # "start" /\ x < r.i

ResultsOf(r, x) ==
    SelectSeq(r.step_results, LAMBDA res : res.step_id = StepsOf(r)[x].id)

EventsOf(r, x) ==
    SelectSeq(r.events, LAMBDA e : e.type = "StepCompleted"
                                    /\ e.step_id = StepsOf(r)[x].id)

CallsOf(r, x) == SelectSeq(r.calls, LAMBDA c : c.idx = x)

EndedAs(r, x, status) ==
    \E y \in DOMAIN ResultsOf(r, x) : ResultsOf(r, x)[y].status = status

\* the step was resolved without success and without being skipped
UltimatelyFailed(r, x) ==
    Resolved(r, x) /\ ~EndedAs(r, x, "Success") /\ ~EndedAs(r, x, "Skipped")

NumSkipped(r) == CountIf(r.step_results, LAMBDA res : res.status = "Skipped")

\* position of the first step that ultimately failed, 0 when none did
FirstFailing(r) ==
    IF \E x \in DOMAIN StepsOf(r) : UltimatelyFailed(r, x)
    THEN CHOOSE x \in DOMAIN StepsOf(r) :
            UltimatelyFailed(r, x) /\ \A y \in 1..(x - 1) : ~UltimatelyFailed(r, y)
    ELSE 0

(***************************************************************************)
(* Claims about execute_task, checked under SpecRun                        *)
(***************************************************************************)

\* C1 as stated: under on_failure = Stop, when the first failing step is at
\* position k (0-based) of n, the run records exactly n - k - 1 Skipped
\* results and its overall status is Failed.
C1_StopSkipsRestAndFails ==
    \A k \in Slots :
       LET r == runs[k] IN
       (Completed(r) /\ r.task[1].on_failure = Stop /\ FirstFailing(r) # 0)
       => /\ NumSkipped(r) = Len(StepsOf(r)) - FirstFailing(r)
          /\ r.run[1].status = "Failed"

\* C1 amended: under on_failure = Stop, when the first failing step is at
\* position k (0-based) of n, the run records exactly n - k - 1 Skipped
\* results; its overall status is Failed when k = 0 and PartialSuccess when
\* k >= 1 (the k steps before it succeeded).
C1_StopSkipsRest ==
    \A k \in Slots :
       LET r == runs[k] IN
       (Completed(r) /\ r.task[1].on_failure = Stop /\ FirstFailing(r) # 0)
       => /\ NumSkipped(r) = Len(StepsOf(r)) - FirstFailing(r)
          /\ r.run[1].status =
                IF FirstFailing(r) = 1 THEN "Failed" ELSE "PartialSuccess"

\* C1 witness: a completed Stop run of three steps whose second step failed.
C1_Witness ==
    \E k \in Slots :
       LET r == runs[k] IN
       /\ Completed(r) /\ r.task[1].on_failure = Stop
       /\ Len(StepsOf(r)) = 3 /\ FirstFailing(r) = 2
       /\ NumSkipped(r) = 1 /\ r.run[1].status = "PartialSuccess"

\* one step failed and every other step ended Skipped
OneFailedRestSkipped(r) ==
    \E x \in DOMAIN StepsOf(r) :
       /\ Len(StepsOf(r)) >= 2
       /\ UltimatelyFailed(r, x)
       /\ \A y \in DOMAIN StepsOf(r) \ {x} : EndedAs(r, y, "Skipped")

FailedThenSucceeded(r, x) ==
    LET cs == CallsOf(r, x) IN
    /\ Len(cs) >= 1
    /\ cs[Len(cs)].status = "Success"
    /\ \A y \in 1..(Len(cs) - 1) : cs[y].status = "Failed"

\* C3: under Retry{m}, m >= 1, a step whose executor fails on attempts
\* 1..j-1 and succeeds on attempt j <= m contributes exactly one StepResult,
\* with status Success, and exactly one step-completed notification; while
\* the step is being retried nothing of it is recorded or emitted.
C3_RetryRecordsOnlySuccess ==
    \A k \in Slots :
       LET r == runs[k] IN
       (r.pc # "idle" /\ r.task[1].on_failure.type = "Retry"
                      /\ r.task[1].on_failure.max_attempts >= 1)
       => \A x \in DOMAIN StepsOf(r) :
             /\ (Resolved(r, x) /\ FailedThenSucceeded(r, x))
                => /\ Len(CallsOf(r, x)) <= r.task[1].on_failure.max_attempts
                   /\ Len(ResultsOf(r, x)) = 1
                   /\ ResultsOf(r, x)[1].status = "Success"
                   /\ Len(EventsOf(r, x)) = 1
                   /\ EventsOf(r, x)[1].status = "Success"
             /\ (r.pc = "loop" /\ x = r.i)
                => /\ ResultsOf(r, x) = <<>>
                   /\ EventsOf(r, x) = <<>>

\* C3 witness: Retry{3}, a step failed twice and succeeded on the third
\* attempt.
C3_Witness ==
    \E k \in Slots :
       LET r == runs[k] IN
       /\ r.pc # "idle" /\ r.task[1].on_failure = Retry(3)
       /\ \E x \in DOMAIN StepsOf(r) :
             /\ Resolved(r, x) /\ FailedThenSucceeded(r, x)
             /\ Len(CallsOf(r, x)) = 3

\* C4: the overall status is PartialSuccess exactly when at least one step
\* ended Success and at least one step failed.
C4_PartialSuccessIff ==
    \A k \in Slots :
       LET r == runs[k] IN
       Completed(r)
       => (r.run[1].status = "PartialSuccess"
           <=> /\ \E x \in DOMAIN StepsOf(r) : EndedAs(r, x, "Success")
               /\ \E x \in DOMAIN StepsOf(r) : UltimatelyFailed(r, x))

\* C4 witness: SkipAndContinue, two steps, the first failed and the second
\* succeeded.
C4_Witness ==
    \E k \in Slots :
       LET r == runs[k] IN
       /\ Completed(r) /\ r.task[1].on_failure = SkipAndContinue
       /\ Len(StepsOf(r)) = 2
       /\ UltimatelyFailed(r, 1) /\ EndedAs(r, 2, "Success")
       /\ r.run[1].status = "PartialSuccess"

\* C5: the overall status is Success when no step failed (a task without
\* steps included) and Failed when a step failed and no step ended Success.
C5_SuccessAndFailed ==
    \A k \in Slots :
       LET r == runs[k]
           failed == \E x \in DOMAIN StepsOf(r) : UltimatelyFailed(r, x)
           succeeded == \E x \in DOMAIN StepsOf(r) : EndedAs(r, x, "Success")
       IN  Completed(r)
           => /\ ~failed => r.run[1].status = "Success"
              /\ (failed /\ ~succeeded) => r.run[1].status = "Failed"

\* C5 witness: a completed run of a task without steps.
C5_Witness ==
    \E k \in Slots :
       LET r == runs[k] IN
       /\ Completed(r) /\ StepsOf(r) = <<>> /\ r.run[1].status = "Success"

\* C6 as stated: a step that depends on the previous one is skipped, its
\* executor never invoked, when the immediately preceding step failed, and
\* is attempted when the immediately preceding step succeeded, even if an
\* earlier step of the run failed.
C6_DependsOnImmediatePrevious ==
    \A k \in Slots :
       LET r == runs[k] IN
       \A x \in DOMAIN StepsOf(r) :
          (Resolved(r, x) /\ x > 1 /\ StepsOf(r)[x].depends_on_previous)
          => /\ UltimatelyFailed(r, x - 1)
                => EndedAs(r, x, "Skipped") /\ CallsOf(r, x) = <<>>
             /\ EndedAs(r, x - 1, "Success")
                => ~EndedAs(r, x, "Skipped") /\ CallsOf(r, x) # <<>>

\* C6 amended: a step that depends on the previous one is skipped, its
\* executor never invoked, when any earlier step of the run failed, also
\* when the immediately preceding step succeeded; when no earlier step
\* failed it is not skipped, and its executor is invoked unless the policy
\* is Retry{max_attempts: 0}.
C6_DependsOnAnyEarlierFailure ==
    \A k \in Slots :
       LET r == runs[k] IN
       \A x \in DOMAIN StepsOf(r) :
          (Resolved(r, x) /\ StepsOf(r)[x].depends_on_previous)
          => IF \E y \in 1..(x - 1) : UltimatelyFailed(r, y)
             THEN /\ Len(ResultsOf(r, x)) = 1
                  /\ EndedAs(r, x, "Skipped")
                  /\ CallsOf(r, x) = <<>>
             ELSE /\ ~EndedAs(r, x, "Skipped")
                  /\ (CallsOf(r, x) = <<>>
                      <=> max_attempts(r.task[1].on_failure) = 0)

\* C6 witness: SkipAndContinue, the first step failed, the second (which
\* does not depend on it) succeeded, and the third, which depends on the
\* previous one, was skipped.
C6_Witness ==
    \E k \in Slots :
       LET r == runs[k] IN
       /\ r.pc # "idle" /\ r.task[1].on_failure = SkipAndContinue
       /\ Resolved(r, 3)
       /\ UltimatelyFailed(r, 1) /\ EndedAs(r, 2, "Success")
       /\ StepsOf(r)[3].depends_on_previous
       /\ EndedAs(r, 3, "Skipped")

(***************************************************************************)
(* SpecStore: the store under any sequence of create / update / delete /   *)
(* toggle / record_run calls, starting from the empty store (no file on    *)
(* disk).  Callers name the ids of CallerIds; a write of save_store may    *)
(* fail when the file is in step with the memory.                          *)
(***************************************************************************)
CallerIds == {1, 2}

\* a task as a caller hands it in
TaskArgs(ids) == {Task(id, CronExpr(5, 1, None), TRUE, <<>>, Stop) : id \in ids}

SaveOutcomes == IF disk = Store(tasks, history) THEN BOOLEAN ELSE {TRUE}

InitStore ==
    /\ tasks = TaskStore_new.tasks
    /\ history = TaskStore_new.history
    /\ disk = TaskStore_new
    /\ now = 0
    /\ uuids = 0
    /\ nrec = <<>>
    /\ ret = Ret("load_store", "Ok", None)
    /\ runs = [k \in Slots |-> IdleRun]
    /\ queue = <<>>
    /\ pending = <<>>
    /\ sched = IdleSched
    /\ threads = IdleThreads

\* the calls are made while fewer than MaxTasks tasks are stored (create)
\* and fewer than maxRuns runs were recorded for the id (record_run)
CreateCall(ids) ==
    \E task \in TaskArgs(ids), ok \in SaveOutcomes :
       /\ Len(tasks) < MaxTasks
       /\ CreateTask(task, ok)

UpdateCall(ids) == \E task \in TaskArgs(ids), ok \in SaveOutcomes : UpdateTask(task, ok)

DeleteCall(ids) == \E id \in ids, ok \in SaveOutcomes : DeleteTask(id, ok)

ToggleCall(ids) == \E id \in ids, ok \in SaveOutcomes : ToggleTask(id, ok)

RecordCall(ids, maxRuns) ==
    \E id \in ids, ok \in SaveOutcomes :
       /\ RunsRecorded(id) < maxRuns
       /\ RecordRun(id, "Success", ok)

NextStore ==
    \/ CreateCall(CallerIds)
    \/ UpdateCall(CallerIds)
    \/ DeleteCall(CallerIds)
    \/ ToggleCall(CallerIds)
    \/ RecordCall(CallerIds, MaxStoreRuns)

SpecStore == InitStore /\ [][NextStore]_vars

(***************************************************************************)
(* SpecHist: the same calls on a single id, with enough recorded runs to   *)
(* fill a history past its cap.                                            *)
(***************************************************************************)
NextHist ==
    \/ CreateCall({1})
    \/ UpdateCall({1})
    \/ DeleteCall({1})
    \/ ToggleCall({1})
    \/ RecordCall({1}, HistoryCap + MaxOverCap)

SpecHist == InitStore /\ [][NextHist]_vars

(***************************************************************************)
(* SpecCreate: sequences of create_task calls on tasks whose id and step   *)
(* ids are empty or chosen by the caller, who can also name the UUIDs      *)
(* issued so far.                                                          *)
(***************************************************************************)
\* the non-empty ids a caller can name: its own, and the UUIDs issued so far
IdArgs == {1} \cup {NewUuid(u) : u \in 0..(uuids - 1)}

\* step lists as a caller hands them in: every step id empty or chosen
NewStepLists ==
    {[x \in DOMAIN ids |-> TaskStep(ids[x], "Local", "RunCommand", FALSE)] :
        ids \in SeqsUpTo({EmptyId, 1}, MaxNewSteps)}

NewTaskArgs ==
    {Task(id, CronExpr(5, 1, None), TRUE, steps, Stop) :
        id \in {EmptyId} \cup IdArgs, steps \in NewStepLists}

NextCreate ==
    \E task \in NewTaskArgs, ok \in SaveOutcomes :
       /\ Len(tasks) < MaxTasks
       /\ uuids + UuidsUsed(task) <= MaxUuids
       /\ CreateTask(task, ok)

SpecCreate == InitStore /\ [][NextCreate]_vars

(***************************************************************************)
(* Claims about the store                                                  *)
(***************************************************************************)

\* C7: every history holds at most 20 runs, and they are the most recently
\* recorded runs of its task id, in recording order (runs carry the serial
\* number seq of their recording).
C7_HistoryKeepsLast20 ==
    /\ \A x \in DOMAIN history :
          LET h   == history[x]
              n   == RunsRecorded(h.task_id)
              len == Len(h.runs)
          IN  /\ len <= 20
              /\ len = IF n < 20 THEN n ELSE 20
              /\ \A y \in 1..len : h.runs[y].seq = n - len + y
    /\ \A id \in DOMAIN nrec :
          nrec[id] > 0 => \E x \in DOMAIN history : history[x].task_id = id

\* C7 witness: a 22nd run was recorded for a task and its history holds the
\* runs 3..22.
C7_Witness ==
    \E x \in DOMAIN history :
       /\ RunsRecorded(history[x].task_id) = 22
       /\ Len(history[x].runs) = 20
       /\ history[x].runs[1].seq = 3
       /\ history[x].runs[20].seq = 22

\* C8: update, delete and toggle called with an id that is absent from the
\* store return NotFound and leave tasks, history and the persisted
\* document unchanged.
C8_AbsentIdIsNotFound ==
    [][\A id \in CallerIds, ok \in BOOLEAN :
          (/\ ~HasTask(tasks, id)
           /\ \/ \E task \in TaskArgs({id}) : UpdateTask(task, ok)
              \/ DeleteTask(id, ok)
              \/ ToggleTask(id, ok))
          => /\ ret'.result = "NotFound"
             /\ tasks' = tasks
             /\ history' = history
             /\ disk' = disk]_vars

\* C8 witness: delete of an absent id returned NotFound while the store
\* holds a task, a history, and a document that is behind the memory.
C8_Witness ==
    /\ ret.op = "delete" /\ ret.result = "NotFound"
    /\ tasks # <<>> /\ history # <<>>
    /\ disk # Store(tasks, history)

\* C9: no two stored tasks share an id.
C9_TaskIdsUnique ==
    \A x, y \in DOMAIN tasks : x # y => tasks[x].id # tasks[y].id

\* C10: create stores the task and returns it; called with an empty task id
\* it gives the task a non-empty id different from every id in the store;
\* every step whose id was empty receives a non-empty id distinct from the
\* other step ids of the task, and step ids given non-empty are kept.
C10_CreateAssignsFreshIds ==
    [][\A task \in NewTaskArgs, ok \in BOOLEAN :
          CreateTask(task, ok)
          => LET t == Last(tasks') IN
             /\ Len(tasks') = Len(tasks) + 1
             /\ ok => ret' = Ret("create", "Ok", Some(t))
             /\ task.id = EmptyId
                => t.id # EmptyId /\ ~HasTask(tasks, t.id)
             /\ task.id # EmptyId => t.id = task.id
             /\ Len(t.steps) = Len(task.steps)
             /\ \A x \in DOMAIN task.steps :
                   IF task.steps[x].id = EmptyId
                   THEN /\ t.steps[x].id # EmptyId
                        /\ \A y \in DOMAIN t.steps \ {x} :
                              t.steps[y].id # t.steps[x].id
                   ELSE t.steps[x].id = task.steps[x].id]_vars

\* C10 witness: with a task of generated id already stored, create returned
\* a second task with a generated id and two steps with generated ids.
C10_Witness ==
    /\ ret.op = "create" /\ ret.result = "Ok"
    /\ Len(tasks) = 2
    /\ tasks[1].id < 0 /\ tasks[2].id < 0
    /\ Len(tasks[2].steps) = 2
    /\ tasks[2].steps[1].id < 0 /\ tasks[2].steps[2].id < 0
    /\ ret.value = Some(tasks[2])

(***************************************************************************)
(* SpecDue: the due-scan on a store loaded from a document of two tasks    *)
(* whose enabled flags and next_run texts are anything a document can      *)
(* hold, while the clock advances and callers toggle the tasks.            *)
(***************************************************************************)
SchedSlots == 1..MaxRuns

\* a next_run as a document can hold it: absent, text that is not RFC 3339,
\* or an instant
NextRunTexts ==
    {None, Some(TimeString(FALSE, 0))}
        \cup {Some(to_rfc3339(t)) : t \in 0..MaxTime}

\* load_store 176-186 on such a document
LoadedTasks(id) ==
    {[Task(id, CronExpr(5, MaxTime + 1, None), enabled, <<>>, Stop)
         EXCEPT !.next_run = next_run] :
        enabled \in BOOLEAN, next_run \in NextRunTexts}

InitDue ==
    /\ \E t1 \in LoadedTasks(1), t2 \in LoadedTasks(2) : tasks = <<t1, t2>>
    /\ history = <<>>
    /\ disk = Store(tasks, history)
    /\ now = 0
    /\ uuids = 0
    /\ nrec = <<>>
    /\ ret = Ret("load_store", "Ok", None)
    /\ runs = [k \in SchedSlots |-> IdleRun]
    /\ queue = <<>>
    /\ pending = <<>>
    /\ sched = IdleSched
    /\ threads = IdleThreads

TickCall == now < MaxTime /\ Tick

\* the ticker fires while fewer than MaxPasses passes were made
DrainCall == sched.pass < MaxPasses /\ Drain

NextDue ==
    \/ TickCall
    \/ ToggleCall({1})
    \/ DrainCall
    \/ ScanDue
    \/ DispatchDue

SpecDue == InitDue /\ [][NextDue]_vars

(***************************************************************************)
(* Claims about the cron helpers and the scheduler loop                    *)
(***************************************************************************)
\* the instant a next_run denotes, as a set: empty when it is absent or is
\* not RFC 3339 text
InstantOf(next_run) ==
    IF next_run # None /\ next_run[1].valid THEN {next_run[1].instant} ELSE {}

DueDispatches == SelectSeq(sched.log, LAMBDA d : d.path = "due")

\* C11: is_task_due is false when the task is disabled or its next_run is
\* absent or unparseable, and otherwise true exactly when next_run <= now;
\* the due-scan collects exactly the stored tasks that are due, so it never
\* collects or dispatches a disabled task.
C11_DueOnlyEnabledAndReached ==
    /\ \A x \in DOMAIN tasks :
          /\ ~tasks[x].enabled => ~is_task_due(tasks[x], now)
          /\ InstantOf(tasks[x].next_run) = {} => ~is_task_due(tasks[x], now)
          /\ (tasks[x].enabled /\ InstantOf(tasks[x].next_run) # {})
             => (is_task_due(tasks[x], now)
                 <=> \A n \in InstantOf(tasks[x].next_run) : n <= now)
    /\ \A x \in DOMAIN sched.due_tasks :
          /\ sched.due_tasks[x].enabled
          /\ \E n \in InstantOf(sched.due_tasks[x].next_run) : n <= now
    /\ \A x \in DOMAIN DueDispatches :
          /\ DueDispatches[x].task.enabled
          /\ \E n \in InstantOf(DueDispatches[x].task.next_run) :
                n <= DueDispatches[x].at

\* C11 witness: a pass has ended in which the due-scan dispatched the
\* enabled task 2 and left alone the disabled task 1, whose next_run has
\* been reached as well.
C11_Witness ==
    /\ sched.pc = "sleep" /\ sched.pass = 1
    /\ Len(tasks) = 2
    /\ ~tasks[1].enabled /\ \E n \in InstantOf(tasks[1].next_run) : n <= now
    /\ Len(sched.log) = 1
    /\ sched.log[1].path = "due" /\ sched.log[1].task = tasks[2]

(***************************************************************************)
(* SpecClock: the store calls on one task while the clock advances, with   *)
(* cron expressions that are valid, valid with a last firing, rejected by  *)
(* the cron crate, or of a wrong number of fields.                         *)
(***************************************************************************)
ClockCrons ==
    {CronExpr(5, 2, None), CronExpr(7, 2, Some(2)),
     CronExpr(6, 0, None), CronExpr(4, 2, None)}

CronTaskArgs(ids, crons) ==
    {Task(id, cron, TRUE, <<>>, Stop) : id \in ids, cron \in crons}

CreateCron(ids, crons) ==
    \E task \in CronTaskArgs(ids, crons), ok \in SaveOutcomes :
       /\ Len(tasks) < MaxTasks
       /\ CreateTask(task, ok)

UpdateCron(ids, crons) ==
    \E task \in CronTaskArgs(ids, crons), ok \in SaveOutcomes : UpdateTask(task, ok)

\* the same calls, and delete, toggle and record_run, when every write of
\* save_store succeeds
CreateSaved(ids, crons) ==
    \E task \in CronTaskArgs(ids, crons) :
       /\ Len(tasks) < MaxTasks
       /\ CreateTask(task, TRUE)

UpdateSaved(ids, crons) ==
    \E task \in CronTaskArgs(ids, crons) : UpdateTask(task, TRUE)

DeleteSaved(ids) == \E id \in ids : DeleteTask(id, TRUE)

ToggleSaved(ids) == \E id \in ids : ToggleTask(id, TRUE)

RecordSaved(ids, maxRuns) ==
    \E id \in ids :
       /\ RunsRecorded(id) < maxRuns
       /\ RecordRun(id, "Success", TRUE)

\* create_task is called on the empty store, its write failing or not
CreateFirstCron(ids, crons) == tasks = <<>> /\ CreateCron(ids, crons)

NextClock ==
    \/ TickCall
    \/ CreateFirstCron({1}, ClockCrons)
    \/ UpdateCron({1}, ClockCrons)
    \/ ToggleCall({1})
    \/ RecordCall({1}, MaxStoreRuns)

SpecClock == InitStore /\ [][NextClock]_vars

\* the expression is one the cron crate parses after normalisation
ValidCron(cron) == cron.nfields \in {5, 6, 7} /\ cron.period # 0

\* the schedule of a valid expression fires at the instant n
Fires(cron, n) ==
    /\ n % cron.period = 0
    /\ cron.last # None => n <= cron.last[1]

\* n is the earliest firing of the expression after the instant t
EarliestAfter(cron, t, n) ==
    /\ n > t
    /\ Fires(cron, n)
    /\ \A m \in (t + 1)..(n - 1) : ~Fires(cron, m)

HasFiringAfter(cron, t) == \E n \in (t + 1)..(t + cron.period) : Fires(cron, n)

\* everything of a task that toggle has no business with
ToggleFrame(task) ==
    [task EXCEPT !.enabled = TRUE, !.updated_at = 0, !.next_run = None]

\* the step is a toggle of the stored task at position x that leaves the
\* other tasks, the history and the other fields of the task alone
TogglesAt(x) ==
    /\ tasks'[x].enabled = ~tasks[x].enabled
    /\ ToggleFrame(tasks'[x]) = ToggleFrame(tasks[x])
    /\ Len(tasks') = Len(tasks)
    /\ \A y \in DOMAIN tasks \ {x} : tasks'[y] = tasks[y]
    /\ history' = history

\* C12 as stated: toggle flips enabled; when the task becomes enabled its
\* next_run is recomputed to an instant strictly after the time of the
\* toggle; when it becomes disabled its next_run is left unchanged.
C12_ToggleRecomputesToInstant ==
    [][\A id \in CallerIds, ok \in BOOLEAN :
          (HasTask(tasks, id) /\ ToggleTask(id, ok))
          => LET x == Position(tasks, id) IN
             /\ TogglesAt(x)
             /\ IF tasks'[x].enabled
                THEN /\ InstantOf(tasks'[x].next_run) # {}
                     /\ \A n \in InstantOf(tasks'[x].next_run) : n > now
                ELSE tasks'[x].next_run = tasks[x].next_run]_vars

\* C12 amended: toggle flips enabled; when the task becomes enabled its
\* next_run is recomputed as of the toggle: to the earliest firing strictly
\* after the time of the toggle when the expression is valid and has a
\* firing left, to absent otherwise, so that the task is never due at once;
\* when it becomes disabled its next_run is left unchanged.
C12_ToggleRecomputes ==
    [][\A id \in CallerIds, ok \in BOOLEAN :
          (HasTask(tasks, id) /\ ToggleTask(id, ok))
          => LET x    == Position(tasks, id)
                 cron == tasks[x].cron_expression
             IN
             /\ TogglesAt(x)
             /\ IF tasks'[x].enabled
                THEN /\ IF ValidCron(cron) /\ HasFiringAfter(cron, now)
                        THEN /\ InstantOf(tasks'[x].next_run) # {}
                             /\ \A n \in InstantOf(tasks'[x].next_run) :
                                   EarliestAfter(cron, now, n)
                        ELSE tasks'[x].next_run = None
                     /\ ~is_task_due(tasks'[x], now)
                ELSE tasks'[x].next_run = tasks[x].next_run]_vars

\* C12 witness: a task was disabled, its next_run was reached, and toggle
\* enabled it again with a next_run after the time of the toggle.
C12_Witness ==
    /\ ret.op = "toggle" /\ ret.result = "Ok"
    /\ now = 2
    /\ tasks # <<>>
    /\ tasks[1].enabled /\ tasks[1].created_at = 0 /\ tasks[1].updated_at = now
    /\ \E n \in InstantOf(tasks[1].next_run) : n > now
    /\ ret.value = Some(tasks[1])

\* the task carries the earliest firing of cron after t, and is not due at t
FreshNextRun(cron, t, task) ==
    /\ InstantOf(task.next_run) # {}
    /\ \A n \in InstantOf(task.next_run) : EarliestAfter(cron, t, n)
    /\ ~is_task_due(task, t)

\* Recomputed(P): in this step create, update, toggle-to-enabled or
\* record_run acted on a stored task, and P holds of the task's cron
\* expression, the instant of the call and the task as it is stored after.
Recomputed(P(_, _, _)) ==
    \A ok \in BOOLEAN :
       /\ \A task \in CronTaskArgs({1}, ClockCrons) :
             /\ CreateTask(task, ok)
                => P(task.cron_expression, now, Last(tasks'))
             /\ (HasTask(tasks, task.id) /\ UpdateTask(task, ok))
                => P(task.cron_expression, now,
                     tasks'[Position(tasks, task.id)])
       /\ \A id \in CallerIds :
             HasTask(tasks, id)
             => LET x == Position(tasks, id) IN
                /\ (~tasks[x].enabled /\ ToggleTask(id, ok))
                   => P(tasks[x].cron_expression, now, tasks'[x])
                /\ RecordRun(id, "Success", ok)
                   => P(tasks[x].cron_expression, now, tasks'[x])

\* C13 as stated: for a task with a valid cron expression, right after
\* create, update, toggle-to-enabled or record_run the task's next_run is
\* present, is the earliest firing of the expression strictly after the
\* instant of the operation, and the task is not due.
C13_ValidCronHasNextRun ==
    [][Recomputed(LAMBDA cron, t, task :
                     ValidCron(cron) => FreshNextRun(cron, t, task))]_vars

\* C13 amended: for a task with a valid cron expression that has a firing
\* after the instant of the operation, right after create, update,
\* toggle-to-enabled or record_run the task's next_run is present, is the
\* earliest firing of the expression strictly after that instant, and the
\* task is not due; when the valid expression has no firing left, next_run
\* is absent and the task is not due either.
C13_NextRunIsEarliestFiring ==
    [][Recomputed(LAMBDA cron, t, task :
                     ValidCron(cron)
                     => IF HasFiringAfter(cron, t)
                        THEN FreshNextRun(cron, t, task)
                        ELSE /\ task.next_run = None
                             /\ ~is_task_due(task, t))]_vars

\* C13 witness: at instant 1 a run of a task created at 0 was recorded and
\* the task's next_run is the firing at 2.
C13_Witness ==
    /\ ret.op = "record_run" /\ ret.result = "Ok"
    /\ now = 1
    /\ tasks # <<>>
    /\ tasks[1].created_at = 0 /\ tasks[1].updated_at = 0
    /\ tasks[1].last_run # None /\ tasks[1].last_run[1].started_at = 1
    /\ ValidCron(tasks[1].cron_expression)
    /\ tasks[1].next_run = Some(to_rfc3339(2))

(***************************************************************************)
(* The scheduler loop from an empty store.                                 *)
(***************************************************************************)
InitSched ==
    /\ tasks = TaskStore_new.tasks
    /\ history = TaskStore_new.history
    /\ disk = TaskStore_new
    /\ now = 0
    /\ uuids = 0
    /\ nrec = <<>>
    /\ ret = Ret("load_store", "Ok", None)
    /\ runs = [k \in SchedSlots |-> IdleRun]
    /\ queue = <<>>
    /\ pending = <<>>
    /\ sched = IdleSched
    /\ threads = IdleThreads

\* run_task_now is entered while fewer than MaxPending calls are under way
RunTaskNowCall(ids) ==
    \E id \in ids :
       /\ Len(pending) < MaxPending
       /\ RunTaskNowCheck(id)

RunTaskNowReturn == \E x \in DOMAIN pending : RunTaskNowQueue(x)

(***************************************************************************)
(* SpecDormant: the due-scan while callers create, update and toggle tasks *)
(* of one id whose cron expression is valid (firing at every instant) or   *)
(* unparseable, runs are recorded for the id, and the clock advances.      *)
(***************************************************************************)
SchedCrons == {CronExpr(5, 1, None), CronExpr(4, 1, None), CronExpr(5, 0, None)}

\* create_task is called on the empty store
CreateFirst(ids, crons) == tasks = <<>> /\ CreateSaved(ids, crons)

NextDormant ==
    \/ TickCall
    \/ CreateFirst({1}, SchedCrons)
    \/ UpdateSaved({1}, SchedCrons)
    \/ ToggleSaved({1})
    \/ RecordSaved({1}, MaxStoreRuns)
    \/ DrainCall
    \/ ScanDue
    \/ DispatchDue

SpecDormant == InitSched /\ [][NextDormant]_vars

(***************************************************************************)
(* SpecSched: the passes of the scheduler loop with the run-now entry      *)
(* point, while callers create tasks of one id (firing at every instant)   *)
(* and the clock advances.  The spawned runs are not followed.             *)
(***************************************************************************)
NextSched ==
    \/ TickCall
    \/ CreateSaved({1}, {CronExpr(5, 1, None)})
    \/ RunTaskNowCall({1})
    \/ RunTaskNowReturn
    \/ DrainCall
    \/ DispatchRunNow
    \/ ScanDue
    \/ DispatchDue

SpecSched == InitSched /\ [][NextSched]_vars

(***************************************************************************)
(* SpecRerun: the due-scan and the runs it spawns of one task (firing at   *)
(* every instant, without steps: a run is started, recorded and finished)  *)
(* while the clock advances.                                               *)
(***************************************************************************)
NextRerun ==
    \/ TickCall
    \/ CreateFirst({1}, {CronExpr(5, 1, None)})
    \/ DrainCall
    \/ ScanDue
    \/ DispatchDue
    \/ \E k \in SchedSlots : StartRun(k)
    \/ \E k \in SchedSlots : FinishRecord(k, TRUE)
    \/ \E k \in SchedSlots : EmitFinished(k)

SpecRerun == InitSched /\ [][NextRerun]_vars

(***************************************************************************)
(* SpecQueue: the run-now entry point and the run-now loop of the          *)
(* scheduler while callers create tasks and delete those of one id; the    *)
(* clock stands still, so no task becomes due.                             *)
(***************************************************************************)
NextQueue ==
    \/ CreateSaved(CallerIds, {CronExpr(5, 1, None)})
    \/ DeleteSaved({1})
    \/ RunTaskNowCall(CallerIds)
    \/ RunTaskNowReturn
    \/ DrainCall
    \/ DispatchRunNow
    \/ ScanDue

SpecQueue == InitSched /\ [][NextQueue]_vars

\* C14: create and update of a task whose cron expression is unparseable
\* return Ok (whenever the write of the document succeeds) and store the
\* task with next_run absent; a stored task with an unparseable expression
\* never has a next_run and is never due, whatever toggle and record_run
\* calls were made, and the due-scan collects and dispatches only tasks
\* whose expression is parseable.
C14_UnparseableIsDormant ==
    /\ [](/\ \A x \in DOMAIN tasks :
                ~ValidCron(tasks[x].cron_expression)
                => tasks[x].next_run = None /\ ~is_task_due(tasks[x], now)
          /\ \A x \in DOMAIN sched.due_tasks :
                ValidCron(sched.due_tasks[x].cron_expression)
          /\ \A x \in DOMAIN DueDispatches :
                ValidCron(DueDispatches[x].task.cron_expression))
    /\ [][\A task \in CronTaskArgs({1}, SchedCrons), ok \in BOOLEAN :
            ~ValidCron(task.cron_expression)
            => /\ CreateTask(task, ok)
                  => /\ ret'.result = SaveResult(ok)
                     /\ Last(tasks').cron_expression = task.cron_expression
                     /\ Last(tasks').next_run = None
               /\ (HasTask(tasks, task.id) /\ UpdateTask(task, ok))
                  => LET x == Position(tasks, task.id) IN
                     /\ ret'.result = SaveResult(ok)
                     /\ tasks'[x].cron_expression = task.cron_expression
                     /\ tasks'[x].next_run = None]_vars

\* C14 witness: the stored task has an unparseable expression given to it
\* by an update after its creation, is enabled, had a run recorded, and two
\* passes of the scheduler, the second one at a later instant, have
\* dispatched nothing.
C14_Witness ==
    /\ sched.pc = "sleep" /\ sched.pass = 2 /\ sched.log = <<>>
    /\ Len(tasks) = 1
    /\ sched.scan_at > tasks[1].updated_at
    /\ ~ValidCron(tasks[1].cron_expression)
    /\ tasks[1].enabled
    /\ tasks[1].updated_at > tasks[1].created_at
    /\ tasks[1].last_run # None

\* the dispatches of the task id made in the pass p
PassDispatches(p, id) ==
    SelectSeq(sched.log, LAMBDA d : d.pass = p /\ d.task.id = id)

\* C15: within one scheduling pass no task is dispatched more than once; a
\* task that is in the drained run-now set and is due at the scan of that
\* pass is dispatched exactly once in the pass, by the run-now loop, and is
\* skipped by the due loop.
C15_OncePerPass ==
    /\ \A p \in 1..sched.pass : \A id \in CallerIds :
          Len(PassDispatches(p, id)) <= 1
    /\ \A x \in DOMAIN sched.due_tasks :
          (x < sched.j /\ AlreadyTriggered(sched.run_now_ids, sched.due_tasks[x]))
          => LET ds == PassDispatches(sched.pass, sched.due_tasks[x].id)
             IN  Len(ds) = 1 /\ ds[1].path = "run_now"

NoDuplicates(s) == \A x, y \in DOMAIN s : x # y => s[x] # s[y]

RunNowDispatches(p, id) ==
    SelectSeq(PassDispatches(p, id), LAMBDA d : d.path = "run_now")

\* C16: the run-now queue, and so every drained copy of it, never holds a
\* task id twice; queue_run_now of an id that is in the queue leaves the
\* queue as it is; an id requested any number of times before a tick is
\* dispatched by the run-now loop at most once at that tick.
C16_QueueRunNowIdempotent ==
    /\ [](/\ NoDuplicates(queue)
          /\ NoDuplicates(sched.run_now_ids)
          /\ \A p \in 1..sched.pass : \A id \in CallerIds :
                Len(RunNowDispatches(p, id)) <= 1)
    /\ [][\A x \in DOMAIN pending :
            RunTaskNowQueue(x)
            => /\ pending[x] \in Range(queue) => queue' = queue
               /\ pending[x] \notin Range(queue)
                  => queue' = Append(queue, pending[x])]_vars

\* C16 witness: the latest queue_run_now found its id in the queue, and the
\* pass that followed dispatched that id once.
C16_Witness ==
    /\ ret = Ret("run_task_now", "Ok", Some(TRUE))
    /\ sched.pc = "sleep" /\ sched.pass = 1
    /\ Len(sched.log) = 1
    /\ sched.log[1].path = "run_now" /\ sched.log[1].task.id = 1
    /\ sched.run_now_ids = <<1>>
    /\ queue = <<>>

\* C17: run_task_now of an id absent from the store returns NotFound at
\* once and leaves the run-now queue unchanged, with nothing handed on to
\* queue_run_now; of an id in the store it goes on to queue_run_now, after
\* which the id is in the queue and Ok is returned; neither step spawns a
\* run or touches the scheduler loop, so every run-now dispatch is made by
\* a pass that drained the id.
C17_RunTaskNowValidates ==
    /\ [][/\ \A id \in CallerIds :
               RunTaskNowCheck(id)
               => /\ queue' = queue /\ runs' = runs /\ sched' = sched
                  /\ IF HasTask(tasks, id)
                     THEN pending' = Append(pending, id)
                     ELSE pending' = pending /\ ret'.result = "NotFound"
          /\ \A x \in DOMAIN pending :
               RunTaskNowQueue(x)
               => /\ ret'.result = "Ok"
                  /\ pending[x] \in Range(queue')
                  /\ Len(pending') = Len(pending) - 1
                  /\ runs' = runs /\ sched' = sched]_vars
    /\ [](\A x \in DOMAIN sched.log :
             sched.log[x].path = "run_now" => sched.log[x].pass >= 1)

\* C17 witness: run_task_now of an absent id returned NotFound while the
\* queue holds the id of a stored task, and no run was spawned.
C17_Witness ==
    /\ ret.op = "run_task_now" /\ ret.result = "NotFound"
    /\ queue = <<1>> /\ pending = <<>>
    /\ HasTask(tasks, 1) /\ ~HasTask(tasks, 2)
    /\ sched.log = <<>>

\* the run in slot k has been spawned and has not yet called record_run
InFlight(k) == runs[k].pc \in {"start", "loop"}

\* C18: a task whose next_run lies in the past is dispatched by the due-scan
\* once for the missed firings: after a dispatch of it, a later pass
\* dispatches it again only for a firing time that was computed after that
\* dispatch.
C18_OnceForMissedFirings ==
    \A x, y \in DOMAIN DueDispatches :
       (/\ x < y
        /\ DueDispatches[x].pass < DueDispatches[y].pass
        /\ DueDispatches[x].task.id = DueDispatches[y].task.id)
       => \A n \in InstantOf(DueDispatches[y].task.next_run) :
             n > DueDispatches[x].at

\* C19: no per-task exclusivity.  The due-scan collects every enabled
\* stored task whose next_run has been reached, and the due loop spawns
\* every collected task that "run now" did not trigger, whether or not a
\* run of the task is in flight; a run leaves the stored task as it is
\* until it calls record_run.
C19_NoExclusivity ==
    [][/\ ScanDue
          => \A x \in DOMAIN tasks :
                (tasks[x].enabled
                 /\ \E n \in InstantOf(tasks[x].next_run) : n <= now)
                => \E z \in DOMAIN sched'.due_tasks :
                      sched'.due_tasks[z] = tasks[x]
       /\ (DispatchDue
           /\ ~AlreadyTriggered(sched.run_now_ids, sched.due_tasks[sched.j]))
          => /\ Len(sched'.log) = Len(sched.log) + 1
             /\ Last(sched'.log).task = sched.due_tasks[sched.j]
             /\ runs'[Last(sched'.log).slot] = Dispatched(sched.due_tasks[sched.j])
       /\ \A k \in SchedSlots :
             (StartRun(k) \/ EmitFinished(k)) => tasks' = tasks]_vars

\* C19 witness: two runs of task 1 are in flight at once, the second one
\* spawned by a later pass than the first from the same next_run.
C19_Witness ==
    /\ InFlight(1) /\ InFlight(2)
    /\ runs[1].task[1].id = 1 /\ runs[2].task[1].id = 1
    /\ Len(sched.log) = 2
    /\ sched.log[1].path = "due" /\ sched.log[2].path = "due"
    /\ sched.log[1].slot = 1 /\ sched.log[2].slot = 2
    /\ sched.log[1].pass < sched.log[2].pass
    /\ sched.log[1].task.next_run = sched.log[2].task.next_run

(***************************************************************************)
(* Claims about the notifications of a run, checked under SpecRun          *)
(***************************************************************************)
\* C20: the notifications of a run are one task-started, emitted before
\* any step is attempted, then one step-completed per recorded StepResult
\* in the order of step_results, then, once the run has ended, exactly one
\* task-finished, which is the last notification.
C20_NotificationOrder ==
    \A k \in Slots :
       LET r == runs[k]
           completed == [x \in DOMAIN r.step_results |->
                            StepCompleted(r.step_results[x])]
       IN  /\ r.pc \in {"idle", "start"}
              => r.events = <<>> /\ r.calls = <<>> /\ r.step_results = <<>>
           /\ r.pc \in {"loop", "recorded"}
              => r.events = <<Started>> \o completed
           /\ r.pc = "done"
              => r.events = <<Started>> \o completed
                               \o <<Finished(r.run[1].status)>>
           /\ \A x \in DOMAIN r.events :
                 /\ r.events[x].type = "Started" => x = 1
                 /\ r.events[x].type = "Finished" => x = Len(r.events)

\* C20 witness: a finished Stop run of three steps whose first step failed:
\* started, the failure, the two skipped steps in step order, finished.
C20_Witness ==
    \E k \in Slots :
       LET r == runs[k] IN
       /\ r.pc = "done" /\ r.task[1].on_failure = Stop
       /\ Len(r.events) = 5
       /\ r.events[1] = Started
       /\ r.events[2] = [type |-> "StepCompleted", step_id |-> 1, status |-> "Failed"]
       /\ r.events[3] = [type |-> "StepCompleted", step_id |-> 2, status |-> "Skipped"]
       /\ r.events[4] = [type |-> "StepCompleted", step_id |-> 3, status |-> "Skipped"]
       /\ r.events[5] = Finished("Failed")

(***************************************************************************)
(* Claims about the end of a run, checked under SpecRun                    *)
(***************************************************************************)
\* the run of slot r has been handed to record_run: the history of its task
\* id holds it
RunRecorded(r) ==
    /\ r.run # None
    /\ \E x \in DOMAIN get_task_history(history, r.task[1].id) :
          get_task_history(history, r.task[1].id)[x] = r.run[1]

FinishedEmitted(r) == \E x \in DOMAIN r.events : r.events[x].type = "Finished"

\* C21 as stated: at the end of a run the task-finished notification is
\* emitted first and the TaskRun goes through record_run afterwards: no run
\* is in the store before its task-finished notification has been emitted.
C21_FinishedBeforeRecord ==
    \A k \in Slots : RunRecorded(runs[k]) => FinishedEmitted(runs[k])

\* C21 amended: at the end of a run the completed TaskRun goes through
\* record_run first and the task-finished notification is emitted
\* afterwards: whenever task-finished has been emitted, record_run has
\* already put the run into the history of the task id, and while the run is
\* being recorded no task-finished has been emitted yet.
C21_RecordBeforeFinished ==
    \A k \in Slots :
       /\ FinishedEmitted(runs[k]) => RunRecorded(runs[k])
       /\ runs[k].pc \in {"start", "loop", "recorded"} => ~FinishedEmitted(runs[k])

\* C21 witness: the run is in the history and in the last_run of its task,
\* and task-finished has not been emitted yet.
C21_Witness ==
    \E k \in Slots :
       LET r == runs[k] IN
       /\ r.pc = "recorded"
       /\ RunRecorded(r)
       /\ tasks[1].last_run = r.run
       /\ ~FinishedEmitted(r)
       /\ Len(r.step_results) = 2

(***************************************************************************)
(* SpecLocks: the four threads and the two mutexes, on a store loaded from *)
(* a document of one enabled task that is due.  A caller creates, updates, *)
(* deletes and toggles the task of that id, a finished run records itself, *)
(* run_task_now is called for the id, and the scheduler loop makes its     *)
(* passes.  The spawned runs are not followed.                             *)
(***************************************************************************)
LockTasks == CronTaskArgs({1}, {CronExpr(5, 1, None)})

InitLocks ==
    /\ \E task \in LockTasks :
          tasks = <<[task EXCEPT !.next_run = Some(to_rfc3339(0))]>>
    /\ history = <<>>
    /\ disk = Store(tasks, history)
    /\ now = 0
    /\ uuids = 0
    /\ nrec = <<>>
    /\ ret = Ret("load_store", "Ok", None)
    /\ runs = [k \in Slots |-> IdleRun]
    /\ queue = <<>>
    /\ pending = <<>>
    /\ sched = IdleSched
    /\ threads = IdleThreads

CrudCall(t) ==
    \E task \in LockTasks, op \in {"create", "update", "delete", "toggle"} :
       /\ op = "create" => tasks = <<>>
       /\ EnterStore(t, op, task)

RecordRunCall(t) ==
    \E task \in LockTasks :
       /\ RunsRecorded(task.id) < MaxStoreRuns
       /\ EnterStore(t, "record_run", task)

StoreSaveCall(t) == \E ok \in BOOLEAN : StoreSave(t, ok)

SchedTickCall(t) == sched.pass < MaxPasses /\ SchedTick(t)

NextLocks ==
    \/ CrudCall("crud")
    \/ RecordRunCall("execute_task")
    \/ \E t \in {"crud", "execute_task"} :
          \/ LockStore(t)
          \/ StoreBody(t)
          \/ StoreSaveCall(t)
    \/ EnterRunNow("run_task_now", 1)
    \/ LockGet("run_task_now")
    \/ RunNowGet("run_task_now")
    \/ LockPush("run_task_now")
    \/ RunNowPush("run_task_now")
    \/ SchedTickCall("scheduler")
    \/ LockDrain("scheduler")
    \/ SchedDrain("scheduler")
    \/ LockGet("scheduler")
    \/ SchedGet("scheduler")
    \/ LockScan("scheduler")
    \/ SchedScan("scheduler")

SpecLocks == InitLocks /\ [][NextLocks]_vars

\* the threads of W wait for one another: each is blocked on a mutex that a
\* thread of W holds
WaitCycle(W) ==
    /\ W # {}
    /\ \A t \in W : \E lock \in WaitsFor(threads[t]) : Holders(lock) \cap W # {}

\* C22: no thread holds the store lock and the run-now-queue lock at the
\* same time, and no thread waits for one of them while holding the other;
\* so no set of threads ever waits in a cycle (no deadlock), and each mutex
\* has one holder at most.
C22_LocksNeverNested ==
    /\ \A t \in Threads :
          /\ Cardinality(threads[t].holds) <= 1
          /\ WaitsFor(threads[t]) # {} => threads[t].holds = {}
    /\ \A W \in SUBSET Threads : ~WaitCycle(W)
    /\ Cardinality(Holders("store")) <= 1
    /\ Cardinality(Holders("queue")) <= 1

\* C22 witness: the scheduler loop holds the queue lock, the CRUD caller
\* the store lock, run_task_now waits for the store lock and record_run
\* waits for it too.
C22_Witness ==
    /\ threads["scheduler"].holds = {"queue"}
    /\ threads["crud"].holds = {"store"}
    /\ WaitsFor(threads["run_task_now"]) = {"store"}
    /\ WaitsFor(threads["execute_task"]) = {"store"}

\* C23: whenever the store lock is free, the in-memory store equals the
\* persisted document, also after a mutating call whose write failed: no
\* reader observes a mutation that has not been persisted.
C23_MemoryEqualsDisk ==
    IsFree("store") => disk = Store(tasks, history)

(***************************************************************************)
(* SpecExec: one dispatched run of a task whose first step pairs any       *)
(* executor with any action, alone or followed by a shell command, under   *)
(* every failure policy.                                                   *)
(***************************************************************************)
ExecStepLists ==
    {<<TaskStep(1, executor, action, FALSE)>> :
        executor \in Executors, action \in StepActions}
    \cup
    {<<TaskStep(1, executor, action, FALSE),
       TaskStep(2, "Local", "RunCommand", dep)>> :
        executor \in Executors, action \in StepActions, dep \in BOOLEAN}

ExecTasks ==
    {NewTask(Task(1, CronExpr(5, 1, None), TRUE, steps, pol), 0, 0) :
        steps \in ExecStepLists, pol \in RunPolicies}

InitExec ==
    /\ \E task \in ExecTasks :
          /\ tasks = <<task>>
          /\ runs = [k \in Slots |-> Dispatched(task)]
    /\ history = <<>>
    /\ disk = Store(tasks, history)
    /\ now = 0
    /\ uuids = 0
    /\ nrec = <<>>
    /\ ret = Ret("create", "Ok", Some(tasks[1]))
    /\ queue = <<>>
    /\ pending = <<>>
    /\ sched = IdleSched
    /\ threads = IdleThreads

SpecExec == InitExec /\ [][NextRun]_vars

\* the executor has a match arm of its own for the action
Supports(executor, action) ==
    CASE executor = "Local" ->
            action \in {"RunCommand", "BackupFiles", "GitCommit", "GitPush",
                        "RunScript", "DeleteFiles"}
      [] executor = "Web" -> action \in {"HttpRequest", "SendWebhook", "DeployTrigger"}
      [] executor = "Ai"  -> action \in {"GenerateContent", "AnalyzeAndAct"}

\* C24: for every pair of executor and action the executor returns Success
\* or Failed and nothing else (no other status, no panic); an action handed
\* to an executor that does not support it yields Failed.  So does every
\* executor call made by a run, and the result recorded for the step
\* carries the status of the call.
C24_ExecutorsReturnSuccessOrFailed ==
    /\ \A executor \in Executors, action \in StepActions :
          LET statuses == execute_step(TaskStep(1, executor, action, FALSE)) IN
          /\ statuses # {}
          /\ statuses \subseteq {"Success", "Failed"}
          /\ ~Supports(executor, action) => statuses = {"Failed"}
    /\ \A k \in Slots :
          LET r == runs[k] IN
          \A c \in DOMAIN r.calls :
             LET step == StepsOf(r)[r.calls[c].idx] IN
             /\ r.calls[c].status \in {"Success", "Failed"}
             /\ ~Supports(step.executor, step.action) => r.calls[c].status = "Failed"
             /\ (Resolved(r, r.calls[c].idx) /\ c = Len(r.calls))
                => /\ Len(ResultsOf(r, r.calls[c].idx)) = 1
                   /\ ResultsOf(r, r.calls[c].idx)[1].status = r.calls[c].status

\* C24 witness: a finished run whose first step handed an http request to
\* the Local executor: one call, Failed, recorded so; the shell command
\* after it succeeded.
C24_Witness ==
    \E k \in Slots :
       LET r == runs[k] IN
       /\ r.pc = "done" /\ r.task[1].on_failure = SkipAndContinue
       /\ Len(StepsOf(r)) = 2
       /\ StepsOf(r)[1].executor = "Local" /\ StepsOf(r)[1].action = "HttpRequest"
       /\ r.calls = <<[idx |-> 1, status |-> "Failed"], [idx |-> 2, status |-> "Success"]>>
       /\ r.step_results[1].status = "Failed"
       /\ r.run[1].status = "PartialSuccess"

\* the step is one the Ai executor runs, or a deploy trigger the Web
\* executor runs
IsStub(step) ==
    \/ step.executor = "Ai"
    \/ step.executor = "Web" /\ step.action = "DeployTrigger"

\* C25: every step executed under the Ai executor and every deploy-trigger
\* step under the Web executor returns Failed on every attempt; a run that
\* attempts such a step never has overall status Success; and under
\* Retry{m} such a step, once resolved without being skipped, was attempted
\* exactly m times.
C25_StubsAlwaysFail ==
    /\ \A executor \in Executors, action \in StepActions :
          IsStub(TaskStep(1, executor, action, FALSE))
          => execute_step(TaskStep(1, executor, action, FALSE)) = {"Failed"}
    /\ \A k \in Slots :
          LET r == runs[k] IN
          r.pc # "idle"
          => \A x \in DOMAIN StepsOf(r) :
                IsStub(StepsOf(r)[x])
                => /\ \A c \in DOMAIN CallsOf(r, x) : CallsOf(r, x)[c].status = "Failed"
                   /\ (Completed(r) /\ CallsOf(r, x) # <<>>)
                      => r.run[1].status \in {"PartialSuccess", "Failed"}
                   /\ (Resolved(r, x) /\ r.task[1].on_failure.type = "Retry"
                                      /\ ~EndedAs(r, x, "Skipped"))
                      => Len(CallsOf(r, x)) = r.task[1].on_failure.max_attempts

\* C25 witness: under Retry{3} a deploy trigger was attempted three times
\* and failed each time; the shell command after it succeeded and the run
\* ended PartialSuccess.
C25_Witness ==
    \E k \in Slots :
       LET r == runs[k] IN
       /\ r.pc = "done" /\ r.task[1].on_failure = Retry(3)
       /\ StepsOf(r)[1].executor = "Web" /\ StepsOf(r)[1].action = "DeployTrigger"
       /\ r.calls = <<[idx |-> 1, status |-> "Failed"], [idx |-> 1, status |-> "Failed"],
                      [idx |-> 1, status |-> "Failed"], [idx |-> 2, status |-> "Success"]>>
       /\ r.run[1].status = "PartialSuccess"

(***************************************************************************)
(* Claims about the step loop of execute_task, checked under SpecRun       *)
(***************************************************************************)
NumFailed(r) == CountIf(r.step_results, LAMBDA res : res.status = "Failed")

\* the step has exactly one result, Skipped, one step-completed
\* notification saying so, and its executor was not invoked
SkippedUnattempted(r, x) ==
    /\ Len(ResultsOf(r, x)) = 1
    /\ ResultsOf(r, x)[1].status = "Skipped"
    /\ Len(EventsOf(r, x)) = 1
    /\ EventsOf(r, x)[1].status = "Skipped"
    /\ CallsOf(r, x) = <<>>

\* C26: under on_failure = Stop, once a step has ultimately failed no later
\* step's executor is invoked: every remaining step, whatever its
\* depends_on_previous flag, has a synthesized Skipped result and its own
\* step-completed notification, and the run holds one Failed result at most.
C26_StopSkipsEveryLaterStep ==
    \A k \in Slots :
       LET r == runs[k] IN
       (r.pc # "idle" /\ r.task[1].on_failure = Stop)
       => /\ \A x \in DOMAIN StepsOf(r) :
                UltimatelyFailed(r, x)
                => \A y \in (x + 1)..Len(StepsOf(r)) : SkippedUnattempted(r, y)
          /\ NumFailed(r) <= 1

\* C26 witness: a Stop run whose first step succeeded and whose second
\* failed; the third, which does not depend on the previous step, was
\* skipped without a call.
C26_Witness ==
    \E k \in Slots :
       LET r == runs[k] IN
       /\ r.pc = "loop" /\ r.task[1].on_failure = Stop
       /\ Len(StepsOf(r)) = 3
       /\ ~StepsOf(r)[3].depends_on_previous
       /\ r.calls = <<[idx |-> 1, status |-> "Success"], [idx |-> 2, status |-> "Failed"]>>
       /\ UltimatelyFailed(r, 2)
       /\ SkippedUnattempted(r, 3)
       /\ r.events[4] = [type |-> "StepCompleted", step_id |-> 3, status |-> "Skipped"]

\* C27: once a step of a run has ended in unrecovered failure, every later
\* step that depends on the previous one is recorded Skipped, with a
\* step-completed notification and without its executor being invoked, also
\* after an independent step in between succeeded; a later step that does
\* not depend on the previous one is still attempted under SkipAndContinue
\* and under Retry.
C27_CascadeSkipsDependentsOnly ==
    \A k \in Slots :
       LET r == runs[k] IN
       r.pc # "idle"
       => \A y \in DOMAIN StepsOf(r) :
             (Resolved(r, y) /\ \E x \in 1..(y - 1) : UltimatelyFailed(r, x))
             => IF StepsOf(r)[y].depends_on_previous
                THEN SkippedUnattempted(r, y)
                ELSE r.task[1].on_failure.type \in {"SkipAndContinue", "Retry"}
                     => /\ CallsOf(r, y) # <<>>
                        /\ ~EndedAs(r, y, "Skipped")

\* C28: a step that is not skipped has its executor invoked once under Stop
\* and under SkipAndContinue; under Retry{m} the invocations are failures
\* up to the first success when one occurs within m attempts, and exactly m
\* failures otherwise; after the m-th failure the one result recorded for
\* the step is Failed and the run goes on to the next step, which is not
\* skipped as "task stopped" and, unless it depends on the previous step,
\* is attempted.
C28_AttemptsPerStep ==
    \A k \in Slots :
       LET r   == runs[k]
           pol == r.task[1].on_failure
       IN
       r.pc # "idle"
       => \A x \in DOMAIN StepsOf(r) :
             (Resolved(r, x) /\ ~EndedAs(r, x, "Skipped"))
             => LET cs == CallsOf(r, x) IN
                /\ pol.type \in {"Stop", "SkipAndContinue"} => Len(cs) = 1
                /\ pol.type = "Retry"
                   => IF \E c \in DOMAIN cs : cs[c].status = "Success"
                      THEN /\ FailedThenSucceeded(r, x)
                           /\ Len(cs) <= pol.max_attempts
                      ELSE /\ Len(cs) = pol.max_attempts
                           /\ \A c \in DOMAIN cs : cs[c].status = "Failed"
                           /\ pol.max_attempts >= 1
                              => /\ Len(ResultsOf(r, x)) = 1
                                 /\ ResultsOf(r, x)[1].status = "Failed"
                                 /\ Len(EventsOf(r, x)) = 1
                           /\ (Completed(r) /\ x < Len(StepsOf(r)))
                              => /\ \A y \in DOMAIN ResultsOf(r, x + 1) :
                                       ResultsOf(r, x + 1)[y].error # "task stopped"
                                 /\ (pol.max_attempts >= 1
                                     /\ ~StepsOf(r)[x + 1].depends_on_previous)
                                    => CallsOf(r, x + 1) # <<>>

\* C28 witness: under Retry{2} the first step failed twice and is recorded
\* Failed; the second step, which does not depend on it, failed once and
\* then succeeded.
C28_Witness ==
    \E k \in Slots :
       LET r == runs[k] IN
       /\ Completed(r) /\ r.task[1].on_failure = Retry(2)
       /\ Len(StepsOf(r)) = 2
       /\ r.calls = <<[idx |-> 1, status |-> "Failed"], [idx |-> 1, status |-> "Failed"],
                      [idx |-> 2, status |-> "Failed"], [idx |-> 2, status |-> "Success"]>>
       /\ ResultsOf(r, 1) = <<StepResult(1, "Failed", "")>>
       /\ ResultsOf(r, 2) = <<StepResult(2, "Success", "")>>


\* C29: every recorded run holds exactly one result per step of its task,
\* in the declared order and with the step's id, whatever the failure
\* policy, Retry{max_attempts: 0} included; and every step that is not
\* recorded Skipped was handed to its executor at least once.
C29_OneResultPerStep ==
    \A k \in Slots :
       LET r == runs[k] IN
       Completed(r)
       => /\ Len(r.step_results) = Len(StepsOf(r))
          /\ \A x \in DOMAIN r.step_results :
                r.step_results[x].step_id = StepsOf(r)[x].id
          /\ \A x \in DOMAIN StepsOf(r) :
                ~EndedAs(r, x, "Skipped") => CallsOf(r, x) # <<>>


\* the step at position x has a result, or the policy allows no attempt
Settled(r, x) ==
    /\ Resolved(r, x)
    /\ ResultsOf(r, x) # <<>> \/ max_attempts(r.task[1].on_failure) = 0

\* C30: the steps of a run execute in the declared order and never
\* overlap: whenever an executor is invoked, it is the executor of the
\* step the loop stands at, every earlier step has been resolved
\* (succeeded, exhausted its attempts, or been skipped), the step itself
\* has no result yet, and no earlier call was for a later step; and no
\* step ever has two results or two step-completed notifications.
C30_StepsInOrder ==
    [][\A k \in Slots :
          LET r  == runs[k]
              r2 == runs'[k]
          IN
          /\ Len(r2.calls) > Len(r.calls)
             => LET y == r2.calls[Len(r2.calls)].idx IN
                /\ Len(r2.calls) = Len(r.calls) + 1
                /\ r.pc = "loop" /\ y = r.i /\ y \in DOMAIN StepsOf(r)
                /\ \A x \in 1..(y - 1) : Settled(r, x)
                /\ ResultsOf(r, y) = <<>> /\ EventsOf(r, y) = <<>>
                /\ \A c \in DOMAIN r.calls : r.calls[c].idx <= y
          /\ r2.pc # "idle"
             => \A x \in DOMAIN StepsOf(r2) :
                   /\ Len(ResultsOf(r2, x)) <= 1
                   /\ Len(EventsOf(r2, x)) <= 1
                   /\ ResultsOf(r2, x) # <<>>
                      => \A z \in 1..(x - 1) : Settled(r2, z)]_vars

\* C30 witness: a finished run of two steps under Retry{2} whose calls were
\* step 1, step 1 again, then step 2, each step with one result
C30_Witness ==
    \E k \in Slots :
       LET r == runs[k] IN
       /\ Completed(r) /\ r.task[1].on_failure = Retry(2)
       /\ Len(StepsOf(r)) = 2
       /\ [c \in DOMAIN r.calls |-> r.calls[c].idx] = <<1, 1, 2>>
       /\ Len(ResultsOf(r, 1)) = 1 /\ Len(ResultsOf(r, 2)) = 1


(***************************************************************************)
(* SpecLife: the life of the task of one id while its runs are in flight.  *)
(* The store is loaded from a document of one enabled task that is due     *)
(* (with no step under Stop, or one step under SkipAndContinue).  Callers  *)
(* update it with a task value of their own, toggle and delete it, and     *)
(* create it again; the due-scan dispatches it and the spawned runs are    *)
(* followed to record_run and the finished notification.  The clock stands *)
(* still.                                                                  *)
(***************************************************************************)
LifeTasks ==
    {Task(1, CronExpr(5, 1, None), TRUE, <<>>, Stop),
     Task(1, CronExpr(5, 1, None), TRUE,
          <<TaskStep(1, "Local", "RunCommand", FALSE)>>, SkipAndContinue)}

InitLife ==
    /\ \E task \in LifeTasks :
          tasks = <<[task EXCEPT !.next_run = Some(to_rfc3339(0))]>>
    /\ history = <<>>
    /\ disk = Store(tasks, history)
    /\ now = 0
    /\ uuids = 0
    /\ nrec = <<>>
    /\ ret = Ret("load_store", "Ok", None)
    /\ runs = [k \in SchedSlots |-> IdleRun]
    /\ queue = <<>>
    /\ pending = <<>>
    /\ sched = IdleSched
    /\ threads = IdleThreads

CreateLife == \E task \in LifeTasks : tasks = <<>> /\ CreateTask(task, TRUE)

UpdateLife == \E task \in LifeTasks : UpdateTask(task, TRUE)

NextLife ==
    \/ CreateLife
    \/ UpdateLife
    \/ ToggleSaved({1})
    \/ DeleteSaved({1})
    \/ DrainCall
    \/ ScanDue
    \/ DispatchDue
    \/ \E k \in SchedSlots :
          \/ StartRun(k)
          \/ AttemptStep(k)
          \/ FinishRecord(k, TRUE)
          \/ EmitFinished(k)

SpecLife == InitLife /\ [][NextLife]_vars

\* C31: every history entry of the store belongs to a task that is in the
\* store, in every reachable state: after delete_task(id) there is no
\* history for id, also when a run of the task was in flight at the delete
\* and calls record_run afterwards.
C31_HistoryOnlyOfStoredTasks ==
    \A x \in DOMAIN history : HasTask(tasks, history[x].task_id)


(***************************************************************************)
(* SpecDrain: the run-now requests and the passes of the scheduler loop on *)
(* a store of two tasks, created at instant 0, of which one may be         *)
(* deleted; the clock stands still, so no task becomes due.  The ticker    *)
(* fires for ever (tokio interval, 412-415) and a pass that has begun goes *)
(* on: the loop body waits for nothing but the two mutexes, which are      *)
(* never held across a wait.  The spawned runs are not followed.           *)
(***************************************************************************)
InitDrain ==
    /\ tasks = [id \in 1..2 |->
                   NewTask(Task(id, CronExpr(5, 1, None), TRUE, <<>>, Stop), 0, 0)]
    /\ history = <<>>
    /\ disk = Store(tasks, history)
    /\ now = 0
    /\ uuids = 0
    /\ nrec = <<>>
    /\ ret = Ret("load_store", "Ok", None)
    /\ runs = [k \in SchedSlots |-> IdleRun]
    /\ queue = <<>>
    /\ pending = <<>>
    /\ sched = IdleSched
    /\ threads = IdleThreads

\* the drained ids the run-now loop has not looked up yet
ToLookUp ==
    IF sched.pc = "run_now"
    THEN SubSeq(sched.run_now_ids, sched.j, Len(sched.run_now_ids))
    ELSE <<>>

\* requests under way, queued, drained or dispatched
Outstanding == Len(pending) + Len(queue) + Len(ToLookUp) + Len(sched.log)

\* run_task_now is called while fewer than MaxRuns requests are outstanding
RunTaskNowBounded == Outstanding < MaxRuns /\ RunTaskNowCall(CallerIds)

\* the ticker fires: always when an id is queued, and otherwise while fewer
\* than MaxPasses passes were made
DrainLive == (sched.pass < MaxPasses \/ queue # <<>>) /\ Drain

NextDrain ==
    \/ DeleteSaved({1})
    \/ RunTaskNowBounded
    \/ RunTaskNowReturn
    \/ DrainLive
    \/ DispatchRunNow
    \/ ScanDue

SpecDrain ==
    /\ InitDrain
    /\ [][NextDrain]_vars
    /\ WF_vars(DrainLive)
    /\ WF_vars(DispatchRunNow)
    /\ WF_vars(ScanDue)


\* the run-now dispatches of the task id made so far
RunNowLog(id) ==
    SelectSeq(sched.log, LAMBDA d : d.path = "run_now" /\ d.task.id = id)

\* C32: the drain loses and duplicates no run-now request.  An id leaves
\* the queue only by a drain, which hands the whole queue to its pass and
\* leaves the queue empty; the run-now loop of that pass looks every
\* drained id up once and, when the task exists at that moment, spawns one
\* run of it, so that no pass dispatches a task twice and a pass that is
\* over has dispatched every drained id whose task is still stored; and an
\* id in the queue whose task is not deleted is eventually dispatched.
C32_NoRequestLost ==
    /\ [][/\ sched'.pass # sched.pass
             => /\ sched'.pass = sched.pass + 1
                /\ sched'.run_now_ids = queue
                /\ queue' = <<>>
          /\ Range(queue) \subseteq Range(queue') \/ sched'.pass # sched.pass
          /\ (sched.pc = "run_now" /\ sched'.pc = "run_now"
              /\ sched'.j = sched.j + 1)
             => LET id == sched.run_now_ids[sched.j] IN
                IF HasTask(tasks, id)
                THEN /\ Len(sched'.log) = Len(sched.log) + 1
                     /\ Last(sched'.log).task = tasks[Position(tasks, id)]
                     /\ Last(sched'.log).path = "run_now"
                     /\ Last(sched'.log).pass = sched.pass
                     /\ runs'[Last(sched'.log).slot] = Dispatched(Last(sched'.log).task)
                ELSE sched'.log = sched.log /\ runs' = runs]_vars
    /\ [](/\ \A p \in 1..sched.pass : \A id \in CallerIds :
                Len(PassDispatches(p, id)) <= 1
          /\ sched.pc # "run_now"
             => \A id \in Range(sched.run_now_ids) :
                   HasTask(tasks, id)
                   => Len(RunNowDispatches(sched.pass, id)) = 1)
    /\ \A id \in CallerIds : \A n \in 0..MaxRuns :
          (id \in Range(queue) /\ Len(RunNowLog(id)) = n)
          ~> (Len(RunNowLog(id)) > n \/ ~HasTask(tasks, id))

\* C32 witness: an id requested while the first pass was under way was
\* drained and dispatched by the second pass, after the first pass had
\* dispatched the id it drained; the queue is empty.
C32_Witness ==
    /\ Len(sched.log) = 2
    /\ sched.log[1].path = "run_now" /\ sched.log[1].pass = 1
    /\ sched.log[2].path = "run_now" /\ sched.log[2].pass = 2
    /\ sched.pc = "sleep" /\ queue = <<>> /\ pending = <<>>


(***************************************************************************)
(* SpecGone: run-now requests for two stored tasks, of which the first may *)
(* be deleted at any moment and the second is due, and the passes of the   *)
(* scheduler loop.  The clock stands still and the spawned runs are not    *)
(* followed.                                                               *)
(***************************************************************************)
InitGone ==
    /\ \E task \in LockTasks :
          tasks = <<NewTask(task, 0, 0),
                    [task EXCEPT !.id = 2, !.next_run = Some(to_rfc3339(0))]>>
    /\ history = <<>>
    /\ disk = Store(tasks, history)
    /\ now = 0
    /\ uuids = 0
    /\ nrec = <<>>
    /\ ret = Ret("load_store", "Ok", None)
    /\ runs = [k \in SchedSlots |-> IdleRun]
    /\ queue = <<>>
    /\ pending = <<>>
    /\ sched = IdleSched
    /\ threads = IdleThreads

NextGone ==
    \/ DeleteSaved({1})
    \/ RunTaskNowCall(CallerIds)
    \/ RunTaskNowReturn
    \/ DrainCall
    \/ DispatchRunNow
    \/ ScanDue
    \/ DispatchDue

SpecGone == InitGone /\ [][NextGone]_vars


\* C33: a drained run-now id whose task is not in the store when the loop
\* looks it up (it was deleted after the request) makes the loop go on to
\* the next id: nothing is spawned, nothing is returned or reported, the
\* store and the queue are left alone, so the id is not queued again.  The
\* other drained ids are dispatched and the due-scan of the pass collects
\* the due tasks and dispatches those "run now" did not trigger.
C33_MissingTaskIsSkipped ==
    /\ [][/\ (/\ sched.pc = "run_now"
              /\ sched.j <= Len(sched.run_now_ids)
              /\ ~HasTask(tasks, sched.run_now_ids[sched.j])
              /\ sched' # sched)
             => /\ sched' = [sched EXCEPT !.j = sched.j + 1]
                /\ runs' = runs /\ queue' = queue /\ ret' = ret
                /\ tasks' = tasks /\ history' = history /\ disk' = disk
          /\ (sched.pc = "run_now" /\ sched'.pc # "run_now")
             => /\ sched.j = Len(sched.run_now_ids) + 1
                /\ sched'.due_tasks = DueTasks(tasks, now)
                /\ sched'.run_now_ids = sched.run_now_ids
          /\ sched'.pass # sched.pass => queue' = <<>>]_vars
    /\ [](/\ \A x \in DOMAIN sched.run_now_ids :
                (x <= Len(sched.run_now_ids) - Len(ToLookUp)
                 /\ HasTask(tasks, sched.run_now_ids[x]))
                => Len(RunNowDispatches(sched.pass, sched.run_now_ids[x])) = 1
          /\ (sched.pc = "sleep" /\ sched.pass >= 1)
             => \A x \in DOMAIN sched.due_tasks :
                   LET n == Len(SelectSeq(sched.log, LAMBDA d :
                                   /\ d.pass = sched.pass /\ d.path = "due"
                                   /\ d.task = sched.due_tasks[x]))
                   IN  IF AlreadyTriggered(sched.run_now_ids, sched.due_tasks[x])
                       THEN n = 0 ELSE n = 1)

\* C33 witness: the first pass drained the ids 1 and 2; task 1 had been
\* deleted and was passed over, task 2 was dispatched by the run-now loop,
\* and the due-scan collected task 2 and left it to "run now"; the queue is
\* empty.
C33_Witness ==
    /\ sched.pc = "sleep" /\ sched.pass = 1
    /\ sched.run_now_ids = <<1, 2>>
    /\ ~HasTask(tasks, 1)
    /\ Len(sched.log) = 1
    /\ sched.log[1].path = "run_now" /\ sched.log[1].task.id = 2
    /\ Len(sched.due_tasks) = 1 /\ sched.due_tasks[1].id = 2
    /\ queue = <<>>


\* C34: after any sequence of runs and store calls, update_task calls that
\* carry an older value of the task included, the last_run of a stored
\* task is the most recent run in the history of its id.
C34_LastRunIsLatestInHistory ==
    \A x \in DOMAIN tasks :
       LET rs == get_task_history(history, tasks[x].id) IN
       rs # <<>> => tasks[x].last_run = Some(Last(rs))


(***************************************************************************)
(* A poisoned mutex.  Mutex::lock returns Err only when the mutex is       *)
(* poisoned, that is, after a thread panicked while its guard was alive;   *)
(* the mutex stays poisoned from then on (nothing calls clear_poison).  To *)
(* cover the Err arms of the scheduler loop (420-421, 429, 441-442) a      *)
(* thread is let panic under a guard.                                      *)
(***************************************************************************)
Poisoned(lock) ==
    \E t \in Threads : threads[t].pc = "panicked" /\ threads[t].call = Some(lock)

\* the thread takes the mutex and panics; unwinding drops the guard
PanicUnderGuard(t, lock) ==
    /\ threads[t].pc = "idle"
    /\ IsFree(lock)
    /\ threads' = [threads EXCEPT
                      ![t] = [pc |-> "panicked", holds |-> {}, call |-> Some(lock)]]
    /\ UNCHANGED <<tasks, history, disk, now, uuids, nrec, ret, runs, queue, pending, sched>>

\* 415-422: the ticker fires and RUN_NOW_QUEUE.lock() returns Err: continue
DrainFails ==
    /\ sched.pc = "sleep"
    /\ Poisoned("queue")
    /\ sched' = [sched EXCEPT !.pass = sched.pass + 1]
    /\ UNCHANGED <<threads, tasks, history, disk, now, uuids, nrec, ret, runs, queue, pending>>

\* 429: get_task returns the Err of TASK_STORE.lock(), which `if let Ok`
\* drops
LookupFails ==
    /\ sched.pc = "run_now"
    /\ sched.j <= Len(sched.run_now_ids)
    /\ Poisoned("store")
    /\ sched' = [sched EXCEPT !.j = sched.j + 1]
    /\ UNCHANGED <<threads, tasks, history, disk, now, uuids, nrec, ret, runs, queue, pending>>

\* 439-443: TASK_STORE.lock() returns Err: continue, back at ticker.tick()
ScanFails ==
    /\ sched.pc = "run_now"
    /\ sched.j > Len(sched.run_now_ids)
    /\ Poisoned("store")
    /\ sched' = [sched EXCEPT !.pc = "sleep"]
    /\ UNCHANGED <<threads, tasks, history, disk, now, uuids, nrec, ret, runs, queue, pending>>

(***************************************************************************)
(* The worker threads of the async runtime.  The scheduler loop (411) and  *)
(* every execute_task it spawns (432, 460) are futures of one runtime,     *)
(* whose worker threads poll them.  execute_task has no await that yields: *)
(* execute_step of a Local step ends in run_shell_command, a plain fn that *)
(* waits in std::process::Command::output() until the command has ended    *)
(* (task_runner.rs 347-405), so the worker thread that polls a run stays   *)
(* with it while the command runs.  The number of worker threads is the    *)
(* machine's; the model takes WorkerThreads of them.                       *)
(***************************************************************************)
WorkerThreads == 2

\* the runs that are inside an executor call, each holding a worker thread
InExecutor == {k \in DOMAIN runs : runs[k].pc = "blocked"}

\* a worker thread is left to poll another future
FreeWorker == Cardinality(InExecutor) < WorkerThreads

\* task_runner.rs 94, 245, 366-373: the executor is called and the command
\* started
EnterExecutor(k) ==
    LET r == runs[k] IN
    /\ InLoop(r)
    /\ ~ShouldSkip(r.had_failure, r.task[1].steps[r.i])
    /\ r.attempt < max_attempts(r.task[1].on_failure)
    /\ runs' = [runs EXCEPT ![k].pc = "blocked"]
    /\ UNCHANGED <<threads, queue, pending, sched, tasks, history, disk, now, uuids, nrec, ret>>

\* task_runner.rs 373-405, 96-154: the command has ended and output()
\* returns
LeaveExecutor(k) ==
    LET r == [runs[k] EXCEPT !.pc = "loop"] IN
    /\ runs[k].pc = "blocked"
    /\ \E status \in execute_step(r.task[1].steps[r.i]) :
          runs' = [runs EXCEPT ![k] = AfterAttempt(r, status)]
    /\ UNCHANGED <<threads, queue, pending, sched, tasks, history, disk, now, uuids, nrec, ret>>

(***************************************************************************)
(* SpecPoison: the passes of the scheduler loop on a store loaded from a   *)
(* document of one enabled task that is due, with run-now requests for it, *)
(* while either mutex may become poisoned (at a moment when no             *)
(* run_task_now call is under way).  The spawned runs are followed through *)
(* their executor calls to the end of their step loop.  A future is polled *)
(* only when a worker thread is free.                                      *)
(***************************************************************************)
\* the ticker fires while fewer than MaxPasses passes were made
DrainUnpoisoned ==
    FreeWorker /\ sched.pass < MaxPasses /\ ~Poisoned("queue") /\ Drain

DrainPoisoned == FreeWorker /\ sched.pass < MaxPasses /\ DrainFails

DispatchRunNowUnpoisoned == FreeWorker /\ ~Poisoned("store") /\ DispatchRunNow

LookupFailsPolled == FreeWorker /\ LookupFails

ScanDueUnpoisoned == FreeWorker /\ ~Poisoned("store") /\ ScanDue

ScanFailsPolled == FreeWorker /\ ScanFails

DispatchDuePolled == FreeWorker /\ DispatchDue

RunTaskNowUnpoisoned ==
    /\ ~Poisoned("store") /\ ~Poisoned("queue")
    /\ RunTaskNowCall({1}) \/ RunTaskNowReturn

MutexPoisoned ==
    /\ pending = <<>>
    /\ PanicUnderGuard("crud", "store") \/ PanicUnderGuard("run_task_now", "queue")

StartRunPolled == \E k \in SchedSlots : FreeWorker /\ StartRun(k)

EnterExecutorPolled == \E k \in SchedSlots : FreeWorker /\ EnterExecutor(k)

CommandEnds == \E k \in SchedSlots : LeaveExecutor(k)

NextPoison ==
    \/ DrainUnpoisoned
    \/ DrainPoisoned
    \/ DispatchRunNowUnpoisoned
    \/ LookupFailsPolled
    \/ ScanDueUnpoisoned
    \/ ScanFailsPolled
    \/ DispatchDuePolled
    \/ RunTaskNowUnpoisoned
    \/ MutexPoisoned
    \/ StartRunPolled
    \/ EnterExecutorPolled
    \/ CommandEnds

SpecPoison == InitLife /\ [][NextPoison]_vars

\* the scheduler loop takes its next step
LoopStep ==
    \/ DrainUnpoisoned
    \/ DrainPoisoned
    \/ DispatchRunNowUnpoisoned
    \/ LookupFailsPolled
    \/ ScanDueUnpoisoned
    \/ ScanFailsPolled
    \/ DispatchDuePolled

\* a run the loop has dispatched that has not reached the end of its steps
Executing(k) == runs[k].pc \in {"start", "loop", "blocked"}

\* C35: the scheduler loop never ends and never waits for a run it has
\* dispatched.  It always stands at the ticker or inside a pass, and its
\* next statement can always be executed, whatever runs are executing and
\* whichever mutex is poisoned.  A tick whose RUN_NOW_QUEUE.lock() fails
\* goes straight back to the ticker; a run-now lookup or a due-scan whose
\* TASK_STORE.lock() fails dispatches nothing, the scan going back to the
\* ticker, and since a poisoned mutex stays poisoned nothing is dispatched
\* later in that tick either.  A later tick drains and scans while the runs
\* of earlier ticks are still executing, and no step of the loop alters a
\* run that is executing.
C35_LoopNeverEndsNorBlocks ==
    /\ [](/\ sched.pc \in {"sleep", "run_now", "due"}
          /\ (sched.pc # "sleep" \/ sched.pass < MaxPasses) => ENABLED LoopStep)
    /\ [][/\ (sched.pc = "sleep" /\ Poisoned("queue") /\ sched' # sched)
             => /\ sched' = [sched EXCEPT !.pass = sched.pass + 1]
                /\ runs' = runs /\ queue' = queue
          /\ (sched.pc = "run_now" /\ Poisoned("store") /\ sched' # sched)
             => /\ runs' = runs /\ sched'.log = sched.log
                /\ IF sched.j <= Len(sched.run_now_ids)
                   THEN sched' = [sched EXCEPT !.j = sched.j + 1]
                   ELSE sched' = [sched EXCEPT !.pc = "sleep"]
          /\ \A lock \in {"store", "queue"} : Poisoned(lock) => Poisoned(lock)'
          /\ sched' # sched
             => \A k \in SchedSlots : Executing(k) => runs'[k] = runs[k]
          /\ (sched.pc = "sleep" /\ sched'.pass # sched.pass /\ ~Poisoned("queue"))
             => sched'.pc = "run_now" /\ sched'.run_now_ids = queue
          /\ (sched.pc = "run_now" /\ sched'.pc # "run_now" /\ ~Poisoned("store"))
             => sched'.due_tasks = DueTasks(tasks, now)]_vars

\* C35, the part the lock failures are about: what the claim says of a tick
\* that fails to take a lock, without the loop's progress
C35_LockFailureSkipsTheTick ==
    [][/\ (sched.pc = "sleep" /\ Poisoned("queue") /\ sched' # sched)
          => /\ sched' = [sched EXCEPT !.pass = sched.pass + 1]
             /\ runs' = runs /\ queue' = queue
       /\ (sched.pc = "run_now" /\ Poisoned("store") /\ sched' # sched)
          => /\ runs' = runs /\ sched'.log = sched.log
             /\ IF sched.j <= Len(sched.run_now_ids)
                THEN sched' = [sched EXCEPT !.j = sched.j + 1]
                ELSE sched' = [sched EXCEPT !.pc = "sleep"]
       /\ \A lock \in {"store", "queue"} : Poisoned(lock) => Poisoned(lock)'
       /\ sched' # sched
          => \A k \in SchedSlots : Executing(k) => runs'[k] = runs[k]]_vars


(***************************************************************************)
(* SpecRunFair: SpecRun with the run's future polled until it completes.   *)
(* The runtime polls a spawned future whenever it can make progress, and   *)
(* every step of execute_task (47-189) is either plain code or an executor *)
(* call, taken here to return; so a step of the run that stays possible is *)
(* eventually taken.                                                       *)
(***************************************************************************)
SpecRunFair == InitRun /\ [][NextRun]_vars /\ WF_vars(NextRun)

FinishedEvents(r) == {x \in DOMAIN r.events : r.events[x].type = "Finished"}

\* C36: a dispatched run whose executor calls all return reaches the end of
\* execute_task, whatever its step list and max_attempts.  Up to there it
\* calls record_run at most once and emits Finished at most once, and at
\* the end it has done each exactly once: the run it recorded is the one
\* entry of the task's history, has finished_at set and a status of
\* Success, PartialSuccess or Failed, and each of its step results has a
\* status of Success, Failed or Skipped.  After the end the run does
\* nothing more.
C36_RunTerminatesRecordedOnce ==
    /\ \A k \in Slots : <>(runs[k].pc = "done")
    /\ [](\A k \in Slots :
            LET r  == runs[k]
                id == r.task[1].id
            IN  /\ RunsRecorded(id) <= 1
                /\ Cardinality(FinishedEvents(r)) <= 1
                /\ r.pc = "done"
                   => /\ RunsRecorded(id) = 1
                      /\ Cardinality(FinishedEvents(r)) = 1
                      /\ Last(r.events).type = "Finished"
                      /\ get_task_history(history, id) = <<r.run[1]>>
                      /\ IsSome(r.run[1].finished_at)
                      /\ r.run[1].status \in {"Success", "PartialSuccess", "Failed"}
                      /\ \A x \in DOMAIN r.run[1].step_results :
                            r.run[1].step_results[x].status
                               \in {"Success", "Failed", "Skipped"})
    /\ [][\A k \in Slots : runs[k].pc = "done" => runs'[k] = runs[k]]_vars

\* C36 witness: a run of MaxSteps steps under Retry{MaxAttempts} has ended
\* after more executor calls than it has steps, recorded as PartialSuccess
C36_Witness ==
    \E k \in Slots :
       /\ runs[k].pc = "done"
       /\ runs[k].task[1].on_failure = Retry(MaxAttempts)
       /\ Len(runs[k].task[1].steps) = MaxSteps
       /\ Len(runs[k].calls) > MaxSteps
       /\ runs[k].run[1].status = "PartialSuccess"
       /\ RunsRecorded(runs[k].task[1].id) = 1


(***************************************************************************)
(* get_tasks and get_task (scheduler.rs 334-349), and what the caller owns *)
(***************************************************************************)
\* 335-337: a clone of the task list
get_tasks(ts) == ts

GetTasksCall ==
    /\ ret' = Ret("get_tasks", "Ok", get_tasks(tasks))
    /\ UNCHANGED <<threads, tasks, history, disk, now, uuids, nrec, runs, queue, pending, sched>>

GetTaskCall(ids) ==
    \E id \in ids :
       /\ ret' = Ret("get_task", IF HasTask(tasks, id) THEN "Ok" ELSE "NotFound",
                     get_task(tasks, id))
       /\ UNCHANGED <<threads, tasks, history, disk, now, uuids, nrec, runs, queue, pending, sched>>

\* mutant of WrittenThrough: the value handed out is the stored task itself
WrittenThrough_liveReference(ts, edited) ==
    [x \in DOMAIN ts |-> IF ts[x].id = edited.id THEN edited ELSE ts[x]]

\* 336 `.clone()`, 346 `.cloned()`: the value handed out is the caller's
\* own, and the task list after the caller has written `edited` to it is
\* the task list as it was
WrittenThrough(ts, edited) == ts

\* the caller changes the steps and the failure policy of a task it was
\* handed
CallerEdits ==
    /\ ret.op \in {"get_task", "get_tasks"}
    /\ \E x \in DOMAIN ret.value, other \in LifeTasks :
          LET edited == [ret.value[x] EXCEPT !.steps = other.steps,
                                             !.on_failure = other.on_failure]
          IN  /\ edited # ret.value[x]
              /\ ret' = [ret EXCEPT !.value[x] = edited]
              /\ tasks' = WrittenThrough(tasks, edited)
    /\ UNCHANGED <<threads, history, disk, now, uuids, nrec, runs, queue, pending, sched>>

(***************************************************************************)
(* SpecSnap: one stored task that is due is dispatched by the scheduler    *)
(* loop and runs to its end, while it is updated, toggled or deleted, and  *)
(* while callers read the store and change what they were handed.          *)
(***************************************************************************)
NextSnap ==
    \/ GetTaskCall({1})
    \/ GetTasksCall
    \/ CallerEdits
    \/ UpdateLife
    \/ ToggleSaved({1})
    \/ DeleteSaved({1})
    \/ DrainCall
    \/ ScanDue
    \/ DispatchDue
    \/ \E k \in SchedSlots :
          \/ StartRun(k)
          \/ AttemptStep(k)
          \/ FinishRecord(k, TRUE)
          \/ EmitFinished(k)

SpecSnap == InitLife /\ [][NextSnap]_vars

\* C37: a run executes on the task as it was when the loop dispatched it:
\* its steps and failure policy are those of the dispatch snapshot whatever
\* update, toggle or delete does to the stored task meanwhile, every
\* executor call is for a step of the snapshot, and the finished run has
\* one result per step of the snapshot; update, toggle and delete leave
\* every run as it is.  get_task and get_tasks return the stored value and
\* change nothing, and a caller changing what it was handed changes neither
\* the store nor its document nor any run.
C37_SnapshotsAreCopies ==
    /\ [](\A x \in DOMAIN sched.log :
            LET d == sched.log[x]
                r == runs[d.slot]
            IN  /\ r.task = Some(d.task)
                /\ \A c \in DOMAIN r.calls : r.calls[c].idx \in DOMAIN d.task.steps
                /\ r.pc = "done"
                   => /\ Len(r.run[1].step_results) = Len(d.task.steps)
                      /\ \A y \in DOMAIN d.task.steps :
                            r.run[1].step_results[y].step_id = d.task.steps[y].id)
    /\ [][/\ (ret'.op \in {"update", "toggle", "delete"} /\ ret' # ret)
             => runs' = runs
          /\ (ret'.op \in {"get_task", "get_tasks"} /\ ret' # ret)
             => /\ tasks' = tasks /\ history' = history /\ disk' = disk
                /\ runs' = runs
          /\ (ret'.op = "get_task" /\ ret.op # "get_task")
             => ret'.value = get_task(tasks, 1)
          /\ (ret'.op = "get_tasks" /\ ret.op # "get_tasks")
             => ret'.value = tasks]_vars

\* C37 witness: the task was updated to have no steps while its run was in
\* flight, the run has ended with the one result of the step it was
\* dispatched with, and a caller has since changed the steps of the value
\* get_task handed it
C37_Witness ==
    /\ HasTask(tasks, 1) /\ tasks[1].steps = <<>>
    /\ ret.op = "get_task" /\ ret.value # <<>>
    /\ ret.value[1].steps # tasks[1].steps
    /\ \E k \in SchedSlots :
          /\ runs[k].pc = "done"
          /\ Len(runs[k].run[1].step_results) = 1


(***************************************************************************)
(* SpecNow: the scheduler loop on a store loaded from a document of one    *)
(* task without steps, enabled or not, whose next_run is absent,           *)
(* unparseable or any instant, while run_task_now is called for it; the   *)
(* spawned runs run to their end.                                          *)
(***************************************************************************)
InitNow ==
    /\ \E task \in LoadedTasks(1) : tasks = <<task>>
    /\ history = <<>>
    /\ disk = Store(tasks, history)
    /\ now = 0
    /\ uuids = 0
    /\ nrec = <<>>
    /\ ret = Ret("load_store", "Ok", None)
    /\ runs = [k \in SchedSlots |-> IdleRun]
    /\ queue = <<>>
    /\ pending = <<>>
    /\ sched = IdleSched
    /\ threads = IdleThreads

NextNow ==
    \/ RunTaskNowCall({1})
    \/ RunTaskNowReturn
    \/ DrainCall
    \/ DispatchRunNow
    \/ ScanDue
    \/ DispatchDue
    \/ \E k \in SchedSlots :
          \/ StartRun(k)
          \/ FinishRecord(k, TRUE)
          \/ EmitFinished(k)

SpecNow == InitNow /\ [][NextNow]_vars

\* C38: a tick takes every queued id, and the run-now loop spawns the
\* stored task of each with no look at its enabled flag or its next_run,
\* while every run the due loop spawns is of a task that was enabled and
\* had a next_run that had come.  When a run ends, record_run sets the
\* stored task's last_run to it and its next_run to the cron expression's
\* next firing after that moment, for a run-now run as for a due run.
C38_RunNowIgnoresEnabledAndNextRun ==
    /\ [](\A x \in DOMAIN sched.log :
            sched.log[x].path = "due"
               => /\ sched.log[x].task.enabled
                  /\ IsSome(sched.log[x].task.next_run)
                  /\ sched.log[x].task.next_run[1].valid
                  /\ sched.log[x].task.next_run[1].instant <= sched.log[x].at)
    /\ [][/\ (sched.pc = "sleep" /\ sched'.pass # sched.pass)
             => sched'.run_now_ids = queue /\ sched'.pc = "run_now"
          /\ (/\ sched.pc = "run_now" /\ sched' # sched
              /\ sched.j <= Len(sched.run_now_ids)
              /\ HasTask(tasks, sched.run_now_ids[sched.j]))
             => LET task == tasks[Position(tasks, sched.run_now_ids[sched.j])]
                IN  /\ HasFreeSlot
                    /\ runs'[FreeSlot] = Dispatched(task)
                    /\ sched'.log = Append(sched.log,
                                           Dispatch(sched.pass, "run_now", task,
                                                    FreeSlot, now))
          /\ \A x \in DOMAIN sched.log :
                LET k  == sched.log[x].slot
                    id == sched.log[x].task.id
                IN  (runs[k].pc = "loop" /\ runs'[k].pc = "recorded" /\ HasTask(tasks, id))
                    => LET pos == Position(tasks, id) IN
                       /\ tasks'[pos].last_run = runs'[k].run
                       /\ tasks'[pos].next_run =
                             next_run_time(tasks[pos].cron_expression, now)
                       /\ tasks'[pos].enabled = tasks[pos].enabled]_vars

\* C38 witness: a disabled task without next_run was queued and spawned by
\* the run-now loop, no due loop spawned anything, and the ended run has
\* given the stored task, still disabled, a next_run
C38_Witness ==
    /\ Len(sched.log) = 1
    /\ sched.log[1].path = "run_now"
    /\ ~sched.log[1].task.enabled
    /\ sched.log[1].task.next_run = None
    /\ runs[sched.log[1].slot].pc = "done"
    /\ ~tasks[1].enabled
    /\ IsSome(tasks[1].next_run)
    /\ tasks[1].last_run = runs[sched.log[1].slot].run
    /\ sched.pass = MaxPasses /\ sched.pc = "sleep"


(***************************************************************************)
(* The persisted document (scheduler.rs 147-193).  save_store writes       *)
(* serde_json::to_string_pretty(store) with fs::write; load_store reads    *)
(* the file and parses it with serde_json::from_str.  The JSON text is     *)
(* modelled by the value it denotes: an object is a record, an array a     *)
(* sequence, a serde variant its snake_case name, an Option null or the    *)
(* value.                                                                  *)
(***************************************************************************)
\* #[serde(rename_all = "snake_case")] 48-49, 59-60, 91-92, 110-111, 129-130
snake_case(name) ==
    CASE name = "Local" -> "local"
      [] name = "Web" -> "web"
      [] name = "Ai" -> "ai"
      [] name = "RunCommand" -> "run_command"
      [] name = "BackupFiles" -> "backup_files"
      [] name = "GitCommit" -> "git_commit"
      [] name = "GitPush" -> "git_push"
      [] name = "RunScript" -> "run_script"
      [] name = "DeleteFiles" -> "delete_files"
      [] name = "HttpRequest" -> "http_request"
      [] name = "DeployTrigger" -> "deploy_trigger"
      [] name = "SendWebhook" -> "send_webhook"
      [] name = "GenerateContent" -> "generate_content"
      [] name = "AnalyzeAndAct" -> "analyze_and_act"
      [] name = "Stop" -> "stop"
      [] name = "SkipAndContinue" -> "skip_and_continue"
      [] name = "Retry" -> "retry"
      [] name = "Pending" -> "pending"
      [] name = "Running" -> "running"
      [] name = "Success" -> "success"
      [] name = "PartialSuccess" -> "partial_success"
      [] name = "Failed" -> "failed"
      [] name = "Skipped" -> "skipped"

\* Deserialize of an enum: the variant of `names` that is written `text`
variant(names, text) == CHOOSE name \in names : snake_case(name) = text

JsonNull == [null |-> TRUE]

JsonValue(v) == [null |-> FALSE, value |-> v]

\* Serialize / Deserialize of Option<String>
ser_option(o) == IF IsSome(o) THEN JsonValue(o[1]) ELSE JsonNull

de_option(j) == IF j.null THEN None ELSE Some(j.value)

\* StepResult 119-127
ser_step_result(r) ==
    [step_id |-> r.step_id, status |-> snake_case(r.status), error |-> r.error]

de_step_result(j) ==
    StepResult(j.step_id, variant(StepStatuses, j.status), j.error)

\* TaskRun 102-108
ser_run(run) ==
    [started_at |-> run.started_at,
     finished_at |-> ser_option(run.finished_at),
     status |-> snake_case(run.status),
     step_results |-> [x \in DOMAIN run.step_results |->
                          ser_step_result(run.step_results[x])],
     seq |-> run.seq]

de_run(j) ==
    TaskRun(j.started_at, de_option(j.finished_at),
            variant(RunStatuses, j.status),
            [x \in DOMAIN j.step_results |-> de_step_result(j.step_results[x])],
            j.seq)

\* FailureAction 91-100, #[serde(tag = "type")]: Retry alone has a field
ser_failure(f) ==
    IF f.type = "Retry"
    THEN [type |-> "retry", max_attempts |-> f.max_attempts]
    ELSE [type |-> snake_case(f.type)]

de_failure(j) ==
    IF j.type = "retry" THEN Retry(j.max_attempts)
    ELSE IF j.type = "stop" THEN Stop
    ELSE SkipAndContinue

\* TaskStep 38-46; StepAction is tagged by "type"
ser_step(s) ==
    [id |-> s.id, executor |-> snake_case(s.executor),
     action |-> [type |-> snake_case(s.action)],
     depends_on_previous |-> s.depends_on_previous]

de_step(j) ==
    TaskStep(j.id, variant(Executors, j.executor),
             variant(StepActions, j.action.type), j.depends_on_previous)

\* ScheduledTask 18-36
ser_task(t) ==
    [id |-> t.id, cron_expression |-> t.cron_expression, enabled |-> t.enabled,
     steps |-> [x \in DOMAIN t.steps |-> ser_step(t.steps[x])],
     on_failure |-> ser_failure(t.on_failure),
     last_run |-> IF IsSome(t.last_run) THEN JsonValue(ser_run(t.last_run[1]))
                  ELSE JsonNull,
     next_run |-> ser_option(t.next_run),
     created_at |-> t.created_at, updated_at |-> t.updated_at]

de_task(j) ==
    [id |-> j.id, cron_expression |-> j.cron_expression, enabled |-> j.enabled,
     steps |-> [x \in DOMAIN j.steps |-> de_step(j.steps[x])],
     on_failure |-> de_failure(j.on_failure),
     last_run |-> IF j.last_run.null THEN None ELSE Some(de_run(j.last_run.value)),
     next_run |-> de_option(j.next_run),
     created_at |-> j.created_at, updated_at |-> j.updated_at]

\* TaskHistory 141-145
ser_history(h) ==
    [task_id |-> h.task_id, runs |-> [x \in DOMAIN h.runs |-> ser_run(h.runs[x])]]

de_history(j) ==
    TaskHistory(j.task_id, [x \in DOMAIN j.runs |-> de_run(j.runs[x])])

\* serde_json::to_string_pretty(store) 191
to_string_pretty(store) ==
    [tasks |-> [x \in DOMAIN store.tasks |-> ser_task(store.tasks[x])],
     history |-> [x \in DOMAIN store.history |-> ser_history(store.history[x])]]

\* the text of a file: the JSON it holds, whole or cut short
Text(json, whole) == [json |-> json, whole |-> whole]

\* serde_json::from_str::<TaskStore>(&content) 180, Err as None: a text
\* cut short is no JSON, and an object of other fields is no TaskStore
from_str(text) ==
    IF text.whole /\ DOMAIN text.json = {"tasks", "history"}
    THEN Some(Store([x \in DOMAIN text.json.tasks |-> de_task(text.json.tasks[x])],
                    [x \in DOMAIN text.json.history |->
                        de_history(text.json.history[x])]))
    ELSE None

\* the file at get_tasks_file_path(): absent, or present with a text that
\* can or cannot be read
NoFile == [exists |-> FALSE]

File(text, readable) == [exists |-> TRUE, text |-> text, readable |-> readable]

\* load_store 176-186
load_store(file) ==
    IF file.exists
    THEN IF file.readable
         THEN LET parsed == from_str(file.text)
              IN  IF IsSome(parsed) THEN parsed[1] ELSE TaskStore_new
         ELSE TaskStore_new
    ELSE TaskStore_new

\* fs::write(&path, json) 192 creates or truncates the file and then writes
\* the text.  It returns Ok when all of it was written ("written"), and Err
\* either when the file could not be opened, which leaves it as it was
\* ("refused"), or when the write failed after the file was truncated,
\* which leaves a text cut short ("torn")
WriteOutcomes == {"written", "refused", "torn"}

fs_write(file, json, outcome) ==
    CASE outcome = "written" -> File(Text(json, TRUE), TRUE)
      [] outcome = "refused" -> file
      [] outcome = "torn"    -> File(Text(json, FALSE), TRUE)

\* save_store 189-193 with the file as it is left
save_store_to(file, store, outcome) ==
    fs_write(file, to_string_pretty(store), outcome)

(***************************************************************************)
(* SpecDisk: the store and its document over create_task, delete_task,     *)
(* record_run and restarts of the application, starting from a file that   *)
(* is absent, unreadable, no TaskStore, or the document of an earlier      *)
(* session.                                                                *)
(***************************************************************************)
DiskTasks ==
    LifeTasks \cup
       {Task(1, CronExpr(5, 1, None), FALSE,
             <<TaskStep(1, "Web", "HttpRequest", TRUE)>>, Retry(2))}

\* files found at the first start
FoundFiles ==
    {NoFile,
     File(Text([version |-> 1], TRUE), TRUE),
     File(Text(to_string_pretty(TaskStore_new), TRUE), FALSE)}
       \cup {File(Text(to_string_pretty(Store(<<NewTask(task, 0, 0)>>, <<>>)), whole),
                  TRUE) :
                task \in DiskTasks, whole \in BOOLEAN}

InitDisk ==
    /\ disk \in FoundFiles
    /\ tasks = load_store(disk).tasks
    /\ history = load_store(disk).history
    /\ now = 0
    /\ uuids = 0
    /\ nrec = <<>>
    /\ ret = Ret("load_store", "Ok", None)
    /\ runs = [k \in Slots |-> IdleRun]
    /\ queue = <<>>
    /\ pending = <<>>
    /\ sched = IdleSched
    /\ threads = IdleThreads

SaveResultOf(outcome) == IF outcome = "written" THEN "Ok" ELSE "IoError"

\* create_task 245-271 on the empty store
CreateDisk ==
    \E task \in DiskTasks, outcome \in WriteOutcomes :
       LET store == create_task(Store(tasks, history), task, now, uuids) IN
       /\ tasks = <<>>
       /\ tasks' = store.tasks
       /\ history' = store.history
       /\ disk' = save_store_to(disk, store, outcome)
       /\ ret' = Ret("create", SaveResultOf(outcome), None)
       /\ UNCHANGED <<threads, queue, pending, sched, now, uuids, nrec, runs>>

\* delete_task 294-308 of a stored task
DeleteDisk ==
    \E outcome \in WriteOutcomes :
       LET res == delete_task(Store(tasks, history), 1) IN
       /\ res.found
       /\ tasks' = res.store.tasks
       /\ history' = res.store.history
       /\ disk' = save_store_to(disk, res.store, outcome)
       /\ ret' = Ret("delete", SaveResultOf(outcome), None)
       /\ nrec' = [id \in DOMAIN nrec \ {1} |-> nrec[id]]
       /\ UNCHANGED <<threads, queue, pending, sched, now, uuids, runs>>

\* record_run 364-393 at the end of a run of one step
RecordDisk ==
    \E status \in {"Success", "Failed"}, outcome \in WriteOutcomes :
       LET run   == TaskRun(now, Some(now), status,
                            <<StepResult(1, status, "")>>, RunsRecorded(1) + 1)
           store == record_run(Store(tasks, history), 1, run, now)
       IN  /\ RunsRecorded(1) < MaxStoreRuns
           /\ tasks' = store.tasks
           /\ history' = store.history
           /\ disk' = save_store_to(disk, store, outcome)
           /\ nrec' = (1 :> (RunsRecorded(1) + 1)) @@ nrec
           /\ ret' = Ret("record_run", SaveResultOf(outcome), None)
           /\ UNCHANGED <<threads, queue, pending, sched, now, uuids, runs>>

\* the application is started again: TASK_STORE is load_store() (198-199)
Restart ==
    /\ tasks' = load_store(disk).tasks
    /\ history' = load_store(disk).history
    /\ nrec' = [id \in {h.task_id : h \in Range(history')} |->
                   Len(get_task_history(history', id))]
    /\ ret' = Ret("load_store", "Ok", None)
    /\ UNCHANGED <<threads, queue, pending, sched, now, uuids, runs, disk>>

NextDisk ==
    \/ CreateDisk
    \/ DeleteDisk
    \/ RecordDisk
    \/ Restart

SpecDisk == InitDisk /\ [][NextDisk]_vars

\* C39: a start loads the store from the document and never fails: a file
\* that is absent, or whose text is cut short or is no TaskStore, loads as
\* the empty store.  A save that succeeds leaves a document that loads as
\* the store that was saved, tasks and histories alike, and a save that
\* fails leaves a document that loads as it did before; so the store after
\* a restart is the last store whose save succeeded.
C39_RestartLoadsLastPersisted ==
    /\ [](/\ load_store(NoFile) = TaskStore_new
          /\ (disk.exists /\ ~IsSome(from_str(disk.text)))
             => load_store(disk) = TaskStore_new
          /\ DOMAIN load_store(disk) = {"tasks", "history"})
    /\ [][/\ (ret'.op = "load_store" /\ (ret' # ret \/ tasks' # tasks \/ history' # history))
             => Store(tasks', history') = load_store(disk)
          /\ (ret'.op # "load_store" /\ ret'.result = "Ok" /\ disk' # disk)
             => load_store(disk') = Store(tasks', history')
          /\ (ret'.op # "load_store" /\ ret'.result = "IoError")
             => load_store(disk') = load_store(disk)]_vars

\* C39, without the saves that fail: what a start loads, and the round trip
\* of a save that succeeds
C39_LoadAndRoundTrip ==
    /\ [](/\ load_store(NoFile) = TaskStore_new
          /\ (disk.exists /\ ~IsSome(from_str(disk.text)))
             => load_store(disk) = TaskStore_new
          /\ DOMAIN load_store(disk) = {"tasks", "history"})
    /\ [][/\ (ret'.op = "load_store" /\ (ret' # ret \/ tasks' # tasks \/ history' # history))
             => Store(tasks', history') = load_store(disk)
          /\ (ret'.op # "load_store" /\ ret'.result = "Ok" /\ disk' # disk)
             => load_store(disk') = Store(tasks', history')]_vars


(***************************************************************************)
(* The working directory of a Local step (task_runner.rs 233-344).  The    *)
(* step carries the cwd of its RunCommand action (scheduler.rs 63) and the *)
(* task its project_id (scheduler.rs 28); both are Option<String>.         *)
(***************************************************************************)
\* dirs_next::home_dir().unwrap_or_else(|| PathBuf::from("."))
home_dir == "~"

\* Path::parent of the script's path 300-304
script_dir == "/scripts"

LocalActions ==
    {"RunCommand", "BackupFiles", "GitCommit", "GitPush", "RunScript", "DeleteFiles"}

\* 238-335: the directory handed to run_shell_command by the action's arm
work_dir(action, cwd, project_id) ==
    CASE action = "RunCommand" ->
            IF IsSome(cwd) THEN cwd[1] ELSE home_dir
      [] action \in {"BackupFiles", "DeleteFiles"} -> home_dir
      [] action \in {"GitCommit", "GitPush"} ->
            IF IsSome(project_id) THEN project_id[1] ELSE home_dir
      [] action = "RunScript" -> script_dir

CwdArgs == {None, Some("/work"), Some("/tmp")}

ProjectIds == {None, Some("/projects/a"), Some("/projects/b"), Some("/projects/c")}

\* a task of one Local step; only RunCommand has a cwd field
DirTasks ==
    {Task(1, CronExpr(5, 1, None), TRUE,
          <<TaskStep(1, "Local", action, FALSE) @@ [cwd |-> cwd]>>, SkipAndContinue)
        @@ [project_id |-> project_id] :
        action \in LocalActions, cwd \in CwdArgs, project_id \in ProjectIds}

InitDir ==
    /\ \E task \in DirTasks :
          /\ task.steps[1].action # "RunCommand" => task.steps[1].cwd = None
          /\ tasks = <<task>>
          /\ runs = [k \in Slots |-> Dispatched(task)]
    /\ history = <<>>
    /\ disk = Store(tasks, history)
    /\ now = 0
    /\ uuids = 0
    /\ nrec = <<>>
    /\ ret = Ret("create", "Ok", None)
    /\ queue = <<>>
    /\ pending = <<>>
    /\ sched = IdleSched
    /\ threads = IdleThreads

\* 90-154 for a Local step: execute_local_step resolves the directory and
\* run_shell_command runs the command there; ret.value is ghost: the
\* directory
ShellStep(k) ==
    LET r    == runs[k]
        step == r.task[1].steps[r.i]
    IN  /\ InLoop(r)
        /\ step.executor = "Local"
        /\ r.attempt < max_attempts(r.task[1].on_failure)
        /\ \E status \in execute_step(step) :
              /\ runs' = [runs EXCEPT ![k] = AfterAttempt(r, status)]
              /\ ret' = Ret("run_shell_command", status,
                            Some(work_dir(step.action, step.cwd,
                                          r.task[1].project_id)))
        /\ UNCHANGED <<threads, queue, pending, sched, tasks, history, disk, now, uuids, nrec>>

NextDir == \E k \in Slots : StartRun(k) \/ ShellStep(k)

SpecDir == InitDir /\ [][NextDir]_vars

\* the step whose command ran last in slot k, and its task
LastShellStep(k) == runs[k].task[1].steps[Last(runs[k].calls).idx]

\* C40: the command of a Local step runs in the step's cwd when it has one,
\* else in the directory of the task's project_id when it has one, else in
\* the home directory.
C40_WorkDirCwdProjectHome ==
    \A k \in Slots :
       ret.op = "run_shell_command"
          => ret.value =
                Some(IF IsSome(LastShellStep(k).cwd) THEN LastShellStep(k).cwd[1]
                     ELSE IF IsSome(runs[k].task[1].project_id)
                          THEN runs[k].task[1].project_id[1]
                          ELSE home_dir)

\* C40, for the git actions alone: the commands of GitCommit and GitPush run
\* in the directory of the task's project_id when it has one, else in the
\* home directory
C40_GitRunsInProjectElseHome ==
    \A k \in Slots :
       (/\ ret.op = "run_shell_command"
        /\ LastShellStep(k).action \in {"GitCommit", "GitPush"})
          => ret.value =
                Some(IF IsSome(runs[k].task[1].project_id)
                     THEN runs[k].task[1].project_id[1]
                     ELSE home_dir)

====
